---- MODULE Spec2Model ----
(***************************************************************************)
(* AGENTS.md validator: the structural Markdown parser                     *)
(* (lib/markdownParser.ts), the validation rules (lib/validationRules.ts)  *)
(* and the aggregator (lib/validator.ts); the debounce of the validator    *)
(* page (pages/validator.tsx) and the navigation of the generator wizard.  *)
(*                                                                         *)
(* A JavaScript string is a sequence of characters, each a one-character   *)
(* string (BT stands for the backtick), so that split, trim, startsWith    *)
(* and the regular expressions of the source are computed character by     *)
(* character.                                                              *)
(***************************************************************************)
EXTENDS Integers, Sequences, FiniteSets, TLC

VARIABLES
    content,   \* the input string of the call
    pc,        \* position of the call: "ready", "scan", "done"
    lines,     \* parseMarkdown: content.split('\n')
    index,     \* parseMarkdown: number of lines the forEach has processed
    scan,      \* parseMarkdown: sections, codeBlocks, headings, currentSection,
               \*                inCodeBlock, currentCodeBlock
    parsed,    \* the ParsedMarkdown returned by parseMarkdown (<<>> before)
    result,    \* the ValidationResult returned by validateAgentsMd (<<>> before)
    versionPatterns,  \* hasVersionSpecificity: the lastIndex of the two patterns
                      \* of versionPatterns, as the latest call left them
    history,   \* the calls of validateAgentsMd made so far: input and result
    pageContent,       \* ValidatorPage: the state content, the edited text
    debouncedContent,  \* ValidatorPage: the state debouncedContent
    timers,            \* ValidatorPage: the pending timeouts, each named by the
                       \*                content its callback has captured
    mounted,           \* ValidatorPage: the page is shown
    step,              \* GeneratorWizard: the state step
    data,              \* GeneratorWizard: the state data, the entered answers
    showPreview        \* GeneratorWizard: the state showPreview

validatorVars == <<content, pc, lines, index, scan, parsed, result, versionPatterns, history>>

pageVars == <<pageContent, debouncedContent, timers, mounted>>

wizardVars == <<step, data, showPreview>>

vars == <<validatorVars, pageVars, wizardVars>>

(***************************************************************************)
(* Bounds of the model.                                                    *)
(***************************************************************************)
\* lines of an input of the scanner specification
MaxLines == 4
\* fragments of an input of the validator specification
MaxFrags == 3
\* calls of validateAgentsMd in a behaviour of the repeated-call specification
MaxCalls == 3

(***************************************************************************)
(* Characters and the String.prototype methods the source uses.            *)
(***************************************************************************)
LowerLetters ==
    {"a","b","c","d","e","f","g","h","i","j","k","l","m",
     "n","o","p","q","r","s","t","u","v","w","x","y","z"}

UpperLetters ==
    {"A","B","C","D","E","F","G","H","I","J","K","L","M",
     "N","O","P","Q","R","S","T","U","V","W","X","Y","Z"}

Digits == {"0","1","2","3","4","5","6","7","8","9"}

\* \w of a regular expression
WordChars ==
    {"a","b","c","d","e","f","g","h","i","j","k","l","m",
     "n","o","p","q","r","s","t","u","v","w","x","y","z",
     "A","B","C","D","E","F","G","H","I","J","K","L","M",
     "N","O","P","Q","R","S","T","U","V","W","X","Y","Z",
     "0","1","2","3","4","5","6","7","8","9","_"}

\* \s of a regular expression, and the characters trim() removes
SpaceChars == {" ", "\t", "\n", "\r"}

\* the characters "." of a regular expression does not match
LineTerminators == {"\n", "\r"}

UpperSeq ==
    <<"A","B","C","D","E","F","G","H","I","J","K","L","M",
      "N","O","P","Q","R","S","T","U","V","W","X","Y","Z">>

LowerSeq ==
    <<"a","b","c","d","e","f","g","h","i","j","k","l","m",
      "n","o","p","q","r","s","t","u","v","w","x","y","z">>

LowerOf == [c \in UpperLetters |-> LowerSeq[CHOOSE i \in 1..26 : UpperSeq[i] = c]]

\* String.prototype.toLowerCase
toLowerCase(s) ==
    SubSeq([i \in 1..Len(s) |-> IF s[i] \in UpperLetters THEN LowerOf[s[i]] ELSE s[i]],
           1, Len(s))

\* String.prototype.trim
trim(s) ==
    IF \A i \in 1..Len(s) : s[i] \in SpaceChars THEN <<>>
    ELSE LET a == CHOOSE i \in 1..Len(s) :
                      /\ s[i] \notin SpaceChars
                      /\ \A j \in 1..(i - 1) : s[j] \in SpaceChars
             b == CHOOSE i \in 1..Len(s) :
                      /\ s[i] \notin SpaceChars
                      /\ \A j \in (i + 1)..Len(s) : s[j] \in SpaceChars
         IN  SubSeq(s, a, b)

\* s.startsWith(p, at - 1): p occurs in s at the 1-based position at
OccursAt(s, p, at) ==
    /\ at >= 1
    /\ at + Len(p) - 1 <= Len(s)
    /\ \A k \in 1..Len(p) : s[at + k - 1] = p[k]

\* String.prototype.startsWith
startsWith(s, p) == OccursAt(s, p, 1)

\* String.prototype.includes
includes(s, p) == \E at \in 1..(Len(s) - Len(p) + 1) : OccursAt(s, p, at)

\* String.prototype.slice(n) for 0 <= n
slice(s, n) == SubSeq(s, n + 1, Len(s))

\* split, were an empty piece after the last newline left out
split_NoTrailing(s) ==
    LET IsNewlineAt(i) == s[i] = "\n"
        nl == SelectSeq([i \in 1..Len(s) |-> i], IsNewlineAt)
        n  == Len(nl)
        m  == IF n > 0 /\ nl[n] = Len(s) THEN n ELSE n + 1
    IN  [k \in 1..m |->
            SubSeq(s, IF k = 1 THEN 1 ELSE nl[k - 1] + 1,
                      IF k = n + 1 THEN Len(s) ELSE nl[k] - 1)]

\* String.prototype.split('\n'): the pieces of s between its newlines
split(s) ==
    LET IsNewlineAt(i) == s[i] = "\n"
        nl == SelectSeq([i \in 1..Len(s) |-> i], IsNewlineAt)
        n  == Len(nl)
    IN  [k \in 1..(n + 1) |->
            SubSeq(s, IF k = 1 THEN 1 ELSE nl[k - 1] + 1,
                      IF k = n + 1 THEN Len(s) ELSE nl[k] - 1)]

RECURSIVE Join(_, _)
\* Array.prototype.join
Join(ss, sep) ==
    IF Len(ss) = 0 THEN <<>>
    ELSE IF Len(ss) = 1 THEN ss[1]
    ELSE ss[1] \o sep \o Join(Tail(ss), sep)

(***************************************************************************)
(* parseMarkdown                                                           *)
(***************************************************************************)
\* the backtick character (a string literal of TLA+ cannot hold it)
BT == "bt"

Fence == <<BT, BT, BT>>

TextLanguage == <<"t", "e", "x", "t">>

\* number of leading '#' characters of a line
LeadingHashes(line) ==
    IF \E i \in 1..Len(line) : line[i] # "#"
    THEN (CHOOSE i \in 1..Len(line) :
              /\ line[i] # "#"
              /\ \A k \in 1..(i - 1) : line[k] = "#") - 1
    ELSE Len(line)

\* HeadingMatch, were the pattern /^(#)\s+(.+)$/: one '#' only
HeadingMatch_SingleHash(line) ==
    LET h  == LeadingHashes(line)
        ks == {k \in 1..(Len(line) - h - 1) :
                 /\ \A j \in (h + 1)..(h + k) : line[j] \in SpaceChars
                 /\ \A j \in (h + k + 1)..Len(line) : line[j] \notin LineTerminators}
    IN  IF h # 1 \/ ks = {} THEN <<>>
        ELSE LET k == CHOOSE x \in ks : \A y \in ks : y <= x
             IN  <<[level |-> h, text |-> trim(SubSeq(line, h + k + 1, Len(line)))]>>

\* line.match(/^(#{1,6})\s+(.+)$/): <<>> for no match, else <<[level, text]>>
\* with level = group 1's length and text = group 2 trimmed.  Group 1 is the
\* whole run of '#', \s+ takes k >= 1 characters of the whitespace that
\* follows, as many as leave group 2 a non-empty rest of the line without a
\* line terminator.
HeadingMatch(line) ==
    LET h  == LeadingHashes(line)
        ks == {k \in 1..(Len(line) - h - 1) :
                 /\ \A j \in (h + 1)..(h + k) : line[j] \in SpaceChars
                 /\ \A j \in (h + k + 1)..Len(line) : line[j] \notin LineTerminators}
    IN  IF h < 1 \/ h > 6 \/ ks = {} THEN <<>>
        ELSE LET k == CHOOSE x \in ks : \A y \in ks : y <= x
             IN  <<[level |-> h, text |-> trim(SubSeq(line, h + k + 1, Len(line)))]>>

\* the locals of parseMarkdown before the forEach (lines 37-43); null is <<>>
ScanInit ==
    [sections |-> <<>>, codeBlocks |-> <<>>, headings |-> <<>>,
     currentSection |-> <<>>, inCodeBlock |-> FALSE, currentCodeBlock |-> <<>>]

\* OpenFence, without the default of line 52 for an empty label
OpenFence_NoDefault(st, line, lineNumber) ==
    LET label == trim(slice(trim(line), 3))
    IN  [st EXCEPT !.currentCodeBlock =
                       <<[language |-> label, code |-> <<>>, lineNumber |-> lineNumber]>>,
                   !.inCodeBlock = TRUE]

\* an opening fence: start of a code block (lines 50-54)
OpenFence(st, line, lineNumber) ==
    LET label    == trim(slice(trim(line), 3))
        language == IF label = <<>> THEN TextLanguage ELSE label
    IN  [st EXCEPT !.currentCodeBlock =
                       <<[language |-> language, code |-> <<>>, lineNumber |-> lineNumber]>>,
                   !.inCodeBlock = TRUE]

\* CloseFence, were the block not pushed when the fence closes
CloseFence_NoPush(st) ==
    [st EXCEPT !.currentCodeBlock = <<>>,
               !.inCodeBlock = FALSE]

\* a closing fence: end of a code block (lines 55-62)
CloseFence(st) ==
    [st EXCEPT !.codeBlocks = IF st.currentCodeBlock # <<>>
                              THEN Append(@, st.currentCodeBlock[1]) ELSE @,
               !.currentCodeBlock = <<>>,
               !.inCodeBlock = FALSE]

\* a heading line: record it and start a new section (lines 75-84)
OpenSection(st, m, lineNumber) ==
    [st EXCEPT !.headings = Append(@, [text |-> m.text, level |-> m.level,
                                       lineNumber |-> lineNumber]),
               !.sections = IF st.currentSection # <<>>
                            THEN Append(@, st.currentSection[1]) ELSE @,
               !.currentSection = <<[title |-> m.text, level |-> m.level,
                                     lineNumber |-> lineNumber, content |-> <<>>]>>]

\* ScanLine, were a line inside a fence added to the open section as well
ScanLine_CodeInContent(st, line, lineNumber) ==
    IF startsWith(trim(line), Fence)
    THEN IF ~st.inCodeBlock THEN OpenFence(st, line, lineNumber) ELSE CloseFence(st)
    ELSE IF st.inCodeBlock /\ st.currentCodeBlock # <<>>
    THEN [st EXCEPT !.currentCodeBlock[1].code = @ \o line \o <<"\n">>,
                    !.currentSection = IF @ = <<>> THEN @
                                       ELSE <<[@[1] EXCEPT !.content = @ \o line \o <<"\n">>]>>]
    ELSE LET m == HeadingMatch(line)
         IN  IF m # <<>> THEN OpenSection(st, m[1], lineNumber)
             ELSE IF st.currentSection # <<>>
             THEN [st EXCEPT !.currentSection[1].content = @ \o line \o <<"\n">>]
             ELSE st

\* ScanLine, were a content line added to its section without the newline
ScanLine_NoNewline(st, line, lineNumber) ==
    IF startsWith(trim(line), Fence)
    THEN IF ~st.inCodeBlock THEN OpenFence(st, line, lineNumber) ELSE CloseFence(st)
    ELSE IF st.inCodeBlock /\ st.currentCodeBlock # <<>>
    THEN [st EXCEPT !.currentCodeBlock[1].code = @ \o line \o <<"\n">>]
    ELSE LET m == HeadingMatch(line)
         IN  IF m # <<>> THEN OpenSection(st, m[1], lineNumber)
             ELSE IF st.currentSection # <<>>
             THEN [st EXCEPT !.currentSection[1].content = @ \o line]
             ELSE st

\* ScanLine, were headings detected before code block content is accumulated
ScanLine_HeadingFirst(st, line, lineNumber) ==
    IF startsWith(trim(line), Fence)
    THEN IF ~st.inCodeBlock THEN OpenFence(st, line, lineNumber) ELSE CloseFence(st)
    ELSE LET m == HeadingMatch(line)
         IN  IF m # <<>> THEN OpenSection(st, m[1], lineNumber)
             ELSE IF st.inCodeBlock /\ st.currentCodeBlock # <<>>
             THEN [st EXCEPT !.currentCodeBlock[1].code = @ \o line \o <<"\n">>]
             ELSE IF st.currentSection # <<>>
             THEN [st EXCEPT !.currentSection[1].content = @ \o line \o <<"\n">>]
             ELSE st

\* the callback of lines.forEach (lines 45-89)
ScanLine(st, line, lineNumber) ==
    IF startsWith(trim(line), Fence)
    THEN IF ~st.inCodeBlock THEN OpenFence(st, line, lineNumber) ELSE CloseFence(st)
    ELSE IF st.inCodeBlock /\ st.currentCodeBlock # <<>>
    THEN [st EXCEPT !.currentCodeBlock[1].code = @ \o line \o <<"\n">>]
    ELSE LET m == HeadingMatch(line)
         IN  IF m # <<>> THEN OpenSection(st, m[1], lineNumber)
             ELSE IF st.currentSection # <<>>
             THEN [st EXCEPT !.currentSection[1].content = @ \o line \o <<"\n">>]
             ELSE st

\* FlushSection, were the last section added only when no fence is open
FlushSection_ClosedOnly(st) ==
    IF st.currentSection # <<>> /\ ~st.inCodeBlock
    THEN Append(st.sections, st.currentSection[1])
    ELSE st.sections

\* FlushSection, were the section still open at the end of the text not added
FlushSection_Dropped(st) == st.sections

\* add the last section (lines 91-94)
FlushSection(st) ==
    IF st.currentSection # <<>> THEN Append(st.sections, st.currentSection[1])
    ELSE st.sections

\* the value parseMarkdown returns (lines 91-102)
ScanResult(st, ls, text) ==
    [sections       |-> FlushSection(st),
     lineCount      |-> Len(ls),
     characterCount |-> Len(text),
     codeBlocks     |-> st.codeBlocks,
     headings       |-> st.headings]

RECURSIVE ScanRange(_, _, _, _)
\* lines.forEach over the lines lo..hi, in order (the range is halved, and st
\* is read before the range is entered, so that the recursion stays shallow)
ScanRange(st, ls, lo, hi) ==
    IF lo > hi \/ st.inCodeBlock \notin BOOLEAN THEN st
    ELSE IF lo = hi THEN ScanLine(st, ls[lo], lo)
    ELSE LET mid == (lo + hi) \div 2
         IN  ScanRange(ScanRange(st, ls, lo, mid), ls, mid + 1, hi)

parseMarkdown(text) ==
    LET ls == split(text)
    IN  ScanResult(ScanRange(ScanInit, ls, 1, Len(ls)), ls, text)

(***************************************************************************)
(* Regular-expression helpers.  Positions are 1-based; a regular           *)
(* expression's lastIndex n is the position n + 1.                         *)
(***************************************************************************)
IsWordAt(s, p) == p >= 1 /\ p <= Len(s) /\ s[p] \in WordChars

\* \b between the characters at p - 1 and p
Boundary(s, p) == IsWordAt(s, p - 1) # IsWordAt(s, p)

\* the last position of the longest run of characters of cs that starts at
\* from (from - 1 when the run is empty)
RunEnd(s, from, cs) ==
    IF \E j \in from..Len(s) : s[j] \notin cs
    THEN (CHOOSE j \in from..Len(s) :
              /\ s[j] \notin cs
              /\ \A k \in from..(j - 1) : s[k] \in cs) - 1
    ELSE Len(s)

\* the least element of a non-empty set of positions
MinOf(ps) == CHOOSE p \in ps : \A q \in ps : p <= q

(***************************************************************************)
(* extractCommands                                                         *)
(***************************************************************************)
Str_space  == <<" ">>
Str_npm    == <<"n","p","m"," ">>
Str_pnpm   == <<"p","n","p","m"," ">>
Str_yarn   == <<"y","a","r","n"," ">>
Str_bun    == <<"b","u","n"," ">>
Str_git    == <<"g","i","t"," ">>
Str_docker == <<"d","o","c","k","e","r"," ">>
Str_make   == <<"m","a","k","e"," ">>
Str_test   == <<"t","e","s","t">>
Str_build  == <<"b","u","i","l","d">>
Str_dev    == <<"d","e","v">>
Str_start  == <<"s","t","a","r","t">>

\* the condition of lines 117-130: the inline code looks like a command
LooksLikeCommand(code) ==
    \/ includes(code, Str_space)
    \/ startsWith(code, Str_npm)
    \/ startsWith(code, Str_pnpm)
    \/ startsWith(code, Str_yarn)
    \/ startsWith(code, Str_bun)
    \/ startsWith(code, Str_git)
    \/ startsWith(code, Str_docker)
    \/ startsWith(code, Str_make)
    \/ includes(code, Str_test)
    \/ includes(code, Str_build)
    \/ includes(code, Str_dev)
    \/ includes(code, Str_start)

\* the starts at or after from of a match of /`([^`]+)`/: a backtick, a
\* character that is no backtick, and a backtick somewhere after it
InlineCodeStarts(s, from) ==
    {i \in from..(Len(s) - 2) :
        /\ s[i] = BT
        /\ s[i + 1] # BT
        /\ \E j \in (i + 2)..Len(s) : s[j] = BT}

RECURSIVE ExecInlineCode(_, _)
\* the loop of inlineCodeRegex.exec from position from on (lines 113-133)
ExecInlineCode(s, from) ==
    LET starts == InlineCodeStarts(s, from)
    IN  IF starts = {} THEN <<>>
        ELSE LET i    == MinOf(starts)
                 j    == CHOOSE k \in (i + 2)..Len(s) :
                             /\ s[k] = BT
                             /\ \A m \in (i + 2)..(k - 1) : s[m] # BT
                 code == SubSeq(s, i + 1, j - 1)
             IN  (IF LooksLikeCommand(code) THEN <<code>> ELSE <<>>)
                     \o ExecInlineCode(s, j + 1)

extractCommands(text) == ExecInlineCode(text, 1)

(***************************************************************************)
(* hasVersionSpecificity                                                   *)
(***************************************************************************)
\* the end of (\.\d+)? matched at position p (p - 1 when the group is empty)
DottedEnd(s, p) ==
    IF p <= Len(s) /\ s[p] = "." /\ RunEnd(s, p + 1, Digits) >= p + 1
    THEN RunEnd(s, p + 1, Digits)
    ELSE p - 1

\* the end of \d+(\.\d+)?(\.\d+)?\b matched at position p, or 0: the digits,
\* then the longest of the dotted groups that ends at a word boundary
VersionNumberEnd(s, p) ==
    LET d  == RunEnd(s, p, Digits)
        d2 == DottedEnd(s, d + 1)
        d3 == DottedEnd(s, d2 + 1)
    IN  IF d < p THEN 0
        ELSE IF Boundary(s, d3 + 1) THEN d3
        ELSE IF Boundary(s, d2 + 1) THEN d2
        ELSE IF Boundary(s, d + 1) THEN d
        ELSE 0

\* the end of a match of \b\w+\s+ (withV: v) \d+(\.\d+)?(\.\d+)?\b that
\* starts at position a, or 0
VersionMatchEnd(s, a, withV) ==
    IF ~(IsWordAt(s, a) /\ Boundary(s, a)) THEN 0
    ELSE LET w == RunEnd(s, a, WordChars)
             x == RunEnd(s, w + 1, SpaceChars)
         IN  IF x < w + 1 THEN 0
             ELSE IF ~withV THEN VersionNumberEnd(s, x + 1)
             ELSE IF x + 1 <= Len(s) /\ s[x + 1] = "v" THEN VersionNumberEnd(s, x + 2)
             ELSE 0

\* pattern.test(content) of a /g pattern whose lastIndex is lastIndex: the
\* lastIndex it leaves (0: no match, the test is false)
VersionTest(s, lastIndex, withV) ==
    LET starts == {a \in (lastIndex + 1)..Len(s) :
                      s[a] \in WordChars /\ VersionMatchEnd(s, a, withV) > 0}
    IN  IF starts = {} THEN 0 ELSE VersionMatchEnd(s, MinOf(starts), withV)

\* PatternLastIndex, were the two patterns built once for the module: a
\* pattern with the g flag keeps its lastIndex from one test to the next
PatternLastIndex_Hoisted(left) == left

\* the lastIndex of a pattern of versionPatterns when test is called: the
\* array literal builds both patterns anew in every call (lines 143-146)
PatternLastIndex(left) == 0

\* versionPatterns.some(pattern => pattern.test(content)) (line 148); left is
\* the lastIndex pair the patterns of the previous call were left with.
\* The result: found, and the pair this call leaves
VersionSome(s, left) ==
    LET e1 == VersionTest(s, PatternLastIndex(left[1]), FALSE)
        e2 == VersionTest(s, PatternLastIndex(left[2]), TRUE)
    IN  IF e1 > 0 THEN [found |-> TRUE, lastIndex |-> <<e1, PatternLastIndex(left[2])>>]
        ELSE [found |-> e2 > 0, lastIndex |-> <<0, e2>>]

hasVersionSpecificity(text) == VersionSome(text, versionPatterns).found

(***************************************************************************)
(* detectSectionKeywords                                                   *)
(***************************************************************************)
SetupWords ==
    { <<"s","e","t","u","p">>,
      <<"i","n","s","t","a","l","l">>,
      <<"d","e","p","e","n","d","e","n","c","i","e","s">>,
      <<"r","e","q","u","i","r","e","m","e","n","t","s">>,
      <<"g","e","t","t","i","n","g"," ","s","t","a","r","t","e","d">>,
      <<"d","e","v"," ","e","n","v","i","r","o","n","m","e","n","t">> }

TestingWords ==
    { <<"t","e","s","t">>,
      <<"t","e","s","t","i","n","g">>,
      <<"q","a">>,
      <<"q","u","a","l","i","t","y">> }

CodeStyleWords ==
    { <<"s","t","y","l","e">>,
      <<"l","i","n","t">>,
      <<"f","o","r","m","a","t">>,
      <<"c","o","n","v","e","n","t","i","o","n">>,
      <<"s","t","a","n","d","a","r","d","s">> }

\* /\b(w1|w2|...)\b/.test(lower), given the positions of lower at which \b
\* holds
HasWholeWord(lower, boundaries, words) ==
    \E at \in boundaries :
        \E w \in words : OccursAt(lower, w, at) /\ (at + Len(w)) \in boundaries

\* detectSectionKeywords; hasArchitecture, hasSecurity and hasGitWorkflow are
\* read by no caller
detectSectionKeywords(text) ==
    LET lower      == toLowerCase(text)
        boundaries == {at \in 1..(Len(text) + 1) : Boundary(lower, at)}
    IN  [hasSetup     |-> HasWholeWord(lower, boundaries, SetupWords),
         hasTesting   |-> HasWholeWord(lower, boundaries, TestingWords),
         hasCodeStyle |-> HasWholeWord(lower, boundaries, CodeStyleWords)]

(***************************************************************************)
(* The validation rules.  A suggestion is its type, title and priority,    *)
(* and args, the values its message interpolates; message, suggestion and  *)
(* example are fixed texts per title.                                      *)
(***************************************************************************)
Suggestion(type, title, priority, args) ==
    [type |-> type, title |-> title, priority |-> priority, args |-> args]

\* sections.map(s => s.title + ' ' + s.content).join(' ')
AllText(sections) ==
    Join([i \in 1..Len(sections) |-> sections[i].title \o <<" ">> \o sections[i].content],
         <<" ">>)

\* checkLength, were the test of line 25 not to return
checkLength_Both(p) ==
    (IF p.lineCount > 200
     THEN <<Suggestion("tip", "Consider keeping it concise", "medium", <<p.lineCount>>)>>
     ELSE <<>>)
    \o (IF p.lineCount > 150
        THEN <<Suggestion("tip", "File is getting long", "low", <<p.lineCount>>)>>
        ELSE <<>>)

\* checkLength, with both limits inclusive
checkLength_Inclusive(p) ==
    IF p.lineCount >= 200
    THEN <<Suggestion("tip", "Consider keeping it concise", "medium", <<p.lineCount>>)>>
    ELSE IF p.lineCount >= 150
    THEN <<Suggestion("tip", "File is getting long", "low", <<p.lineCount>>)>>
    ELSE <<>>

\* checkLength, with the limit of line 25 ten lines too high
checkLength_Late(p) ==
    IF p.lineCount > 210
    THEN <<Suggestion("tip", "Consider keeping it concise", "medium", <<p.lineCount>>)>>
    ELSE IF p.lineCount > 150
    THEN <<Suggestion("tip", "File is getting long", "low", <<p.lineCount>>)>>
    ELSE <<>>

\* null or one suggestion, as a sequence of length 0 or 1
checkLength(p) ==
    IF p.lineCount > 200
    THEN <<Suggestion("tip", "Consider keeping it concise", "medium", <<p.lineCount>>)>>
    ELSE IF p.lineCount > 150
    THEN <<Suggestion("tip", "File is getting long", "low", <<p.lineCount>>)>>
    ELSE <<>>

\* checkMinimumContent, with the limit of line 54 one too high
checkMinimumContent_FiveLines(p) ==
    IF p.lineCount <= 5
    THEN <<Suggestion("tip", "Add more context", "medium", <<>>)>>
    ELSE IF Len(p.sections) = 0
    THEN <<Suggestion("tip", "Add section headings", "high", <<>>)>>
    ELSE <<>>

\* null or one suggestion: the test of lineCount returns first (lines 51-87)
checkMinimumContent(p) ==
    IF p.lineCount < 5
    THEN <<Suggestion("tip", "Add more context", "medium", <<>>)>>
    ELSE IF Len(p.sections) = 0
    THEN <<Suggestion("tip", "Add section headings", "high", <<>>)>>
    ELSE <<>>

checkCommonSections(p) ==
    LET keywords == detectSectionKeywords(AllText(p.sections))
    IN  (IF ~keywords.hasSetup
         THEN <<Suggestion("tip", "Consider adding setup instructions", "high", <<>>)>>
         ELSE <<>>)
        \o (IF ~keywords.hasTesting
            THEN <<Suggestion("tip", "Consider adding testing instructions", "medium", <<>>)>>
            ELSE <<>>)
        \o (IF ~keywords.hasCodeStyle
            THEN <<Suggestion("tip", "Consider documenting code style", "low", <<>>)>>
            ELSE <<>>)

\* checkCommandFormatting, with the limit of line 151 one too high
checkCommandFormatting_SixAllowed(p, text) ==
    LET commands == extractCommands(text)
    IN  IF Len(commands) > 6 /\ Len(p.codeBlocks) = 0
        THEN <<Suggestion("tip", "Consider using code blocks", "low", <<Len(commands)>>)>>
        ELSE <<>>

\* lines 146-167
checkCommandFormatting(p, text) ==
    LET commands == extractCommands(text)
    IN  IF Len(commands) > 5 /\ Len(p.codeBlocks) = 0
        THEN <<Suggestion("tip", "Consider using code blocks", "low", <<Len(commands)>>)>>
        ELSE <<>>

Str_React      == <<"R","e","a","c","t">>
Str_Node       == <<"N","o","d","e">>
Str_Python     == <<"P","y","t","h","o","n">>
Str_TypeScript == <<"T","y","p","e","S","c","r","i","p","t">>
Str_Next       == <<"N","e","x","t">>
Str_dot_js     == <<".","j","s">>

\* \s+\d (withV: \s+v?\d) matches at position p
VersionFollows(s, p, withV) ==
    LET x == RunEnd(s, p, SpaceChars)
    IN  /\ x >= p
        /\ \/ x + 1 <= Len(s) /\ s[x + 1] \in Digits
           \/ withV /\ x + 2 <= Len(s) /\ s[x + 1] = "v" /\ s[x + 2] \in Digits

\* \b name (?:\.js)? \b (?! \s+ v? \d) matches somewhere in s; dotJs: the
\* pattern has the optional (?:\.js), withV: its lookahead has the v?
ToolPatternTest(s, name, dotJs, withV) ==
    \E a \in {i \in 1..Len(s) : s[i] = name[1]} :
        /\ OccursAt(s, name, a)
        /\ Boundary(s, a)
        /\ LET e == a + Len(name)
           IN  \/ /\ dotJs
                  /\ OccursAt(s, Str_dot_js, e)
                  /\ Boundary(s, e + 3)
                  /\ ~VersionFollows(s, e + 3, withV)
               \/ /\ Boundary(s, e)
                  /\ ~VersionFollows(s, e, withV)

\* toolPatterns.filter(...).map(({ name }) => name) (lines 174-184)
FoundTools(s) ==
    (IF ToolPatternTest(s, Str_React, FALSE, FALSE) THEN <<"React">> ELSE <<>>)
    \o (IF ToolPatternTest(s, Str_Node, TRUE, TRUE) THEN <<"Node">> ELSE <<>>)
    \o (IF ToolPatternTest(s, Str_Python, FALSE, FALSE) THEN <<"Python">> ELSE <<>>)
    \o (IF ToolPatternTest(s, Str_TypeScript, FALSE, FALSE) THEN <<"TypeScript">> ELSE <<>>)
    \o (IF ToolPatternTest(s, Str_Next, TRUE, FALSE) THEN <<"Next.js">> ELSE <<>>)

\* checkVersionSpecificity, were the text's other word-number tokens ignored
checkVersionSpecificity_ToolsOnly(text) ==
    LET foundTools == FoundTools(text)
    IN  IF Len(foundTools) > 0
        THEN <<Suggestion("tip", "Be more specific about versions", "low", foundTools)>>
        ELSE <<>>

\* lines 172-198
checkVersionSpecificity(text) ==
    LET foundTools == FoundTools(text)
    IN  IF Len(foundTools) > 0 /\ ~hasVersionSpecificity(text)
        THEN <<Suggestion("tip", "Be more specific about versions", "low", foundTools)>>
        ELSE <<>>

IsTopLevel(h) == h.level = 1

\* s.content.split('\n').length > 50
IsLongSection(sec) == Len(split(sec.content)) > 50

\* IsEmptySection, with the limit of line 232 inclusive
IsEmptySection_Inclusive(sec) == Len(trim(sec.content)) <= 10

\* s.content.trim().length < 10
IsEmptySection(sec) == Len(trim(sec.content)) < 10

\* checkReadability, were a suggestion pushed for every empty section
checkReadability_PerSection(p) ==
    LET topLevelHeadings == SelectSeq(p.headings, IsTopLevel)
        longSections     == SelectSeq(p.sections, IsLongSection)
        emptySections    == SelectSeq(p.sections, IsEmptySection)
    IN  (IF Len(topLevelHeadings) > 1
         THEN <<Suggestion("info", "Multiple top-level headings", "low",
                           <<Len(topLevelHeadings)>>)>>
         ELSE <<>>)
        \o (IF Len(longSections) > 0
            THEN <<Suggestion("tip", "Some sections are very long", "low",
                              <<Len(longSections)>>)>>
            ELSE <<>>)
        \o [i \in 1..Len(emptySections) |->
               Suggestion("tip", "Empty sections detected", "medium", <<1>>)]

\* lines 203-244
checkReadability(p) ==
    LET topLevelHeadings == SelectSeq(p.headings, IsTopLevel)
        longSections     == SelectSeq(p.sections, IsLongSection)
        emptySections    == SelectSeq(p.sections, IsEmptySection)
    IN  (IF Len(topLevelHeadings) > 1
         THEN <<Suggestion("info", "Multiple top-level headings", "low",
                           <<Len(topLevelHeadings)>>)>>
         ELSE <<>>)
        \o (IF Len(longSections) > 0
            THEN <<Suggestion("tip", "Some sections are very long", "low",
                              <<Len(longSections)>>)>>
            ELSE <<>>)
        \o (IF Len(emptySections) > 0
            THEN <<Suggestion("tip", "Empty sections detected", "medium",
                              <<Len(emptySections)>>)>>
            ELSE <<>>)

\* hasGoodLength, with the upper limit exclusive
hasGoodLength_Exclusive(p) == p.lineCount >= 10 /\ p.lineCount < 150

\* the four conditions of checkWellFormed (lines 255-258)
hasGoodLength(p) == p.lineCount >= 10 /\ p.lineCount <= 150

hasSections(p) == Len(p.sections) >= 3

hasCommands(p, text) == Len(extractCommands(text)) > 0 \/ Len(p.codeBlocks) > 0

\* hasKeyTopics, were one topic enough
hasKeyTopics_OneTopic(p) ==
    LET keywords == detectSectionKeywords(AllText(p.sections))
    IN  Cardinality({k \in {"hasSetup", "hasTesting", "hasCodeStyle"} : keywords[k]}) >= 1

\* line 258
hasKeyTopics(p) ==
    LET keywords == detectSectionKeywords(AllText(p.sections))
    IN  Cardinality({k \in {"hasSetup", "hasTesting", "hasCodeStyle"} : keywords[k]}) >= 2

checkWellFormed(p, text) ==
    IF hasGoodLength(p) /\ hasSections(p) /\ hasCommands(p, text) /\ hasKeyTopics(p)
    THEN <<Suggestion("success", "Well-structured AGENTS.md", "high", <<>>)>>
    ELSE <<>>

(***************************************************************************)
(* The aggregator: validateAgentsMd, calculateScore, generateSummary.      *)
(***************************************************************************)
\* priorityOrder (line 81)
priorityOrder == [high |-> 0, medium |-> 1, low |-> 2]

\* the comparator of the sort (line 82)
ComparePriority(a, b) == priorityOrder[a.priority] - priorityOrder[b.priority]

\* InsertSorted, were x put before the elements that compare equal
InsertSorted_Unstable(xs, x) ==
    LET after == {i \in 1..Len(xs) : ComparePriority(xs[i], x) < 0}
        n     == IF after = {} THEN 0 ELSE CHOOSE i \in after : \A j \in after : j <= i
    IN  SubSeq(xs, 1, n) \o <<x>> \o SubSeq(xs, n + 1, Len(xs))

\* x goes after the elements of the sorted xs that do not compare greater
InsertSorted(xs, x) ==
    LET after == {i \in 1..Len(xs) : ComparePriority(xs[i], x) <= 0}
        n     == IF after = {} THEN 0 ELSE CHOOSE i \in after : \A j \in after : j <= i
    IN  SubSeq(xs, 1, n) \o <<x>> \o SubSeq(xs, n + 1, Len(xs))

RECURSIVE SortFrom(_, _, _)
SortFrom(done, xs, i) ==
    IF i > Len(xs) THEN done ELSE SortFrom(InsertSorted(done, xs[i]), xs, i + 1)

\* SortByPriority, were the list returned as the rules emitted it
SortByPriority_Unsorted(xs) == xs

\* suggestions.sort(comparator): Array.prototype.sort is stable
SortByPriority(xs) == SortFrom(<<>>, xs, 1)

\* Deduction, were info suggestions exempt as success suggestions are
Deduction_InfoFree(sug) ==
    IF sug.type \in {"success", "info"} THEN 0
    ELSE IF sug.priority = "high" THEN 15
    ELSE IF sug.priority = "medium" THEN 8
    ELSE IF sug.priority = "low" THEN 3
    ELSE 0

\* the points one suggestion costs (lines 105-120)
Deduction(sug) ==
    IF sug.type = "success" THEN 0
    ELSE IF sug.priority = "high" THEN 15
    ELSE IF sug.priority = "medium" THEN 8
    ELSE IF sug.priority = "low" THEN 3
    ELSE 0

RECURSIVE DeductFrom(_, _, _)
\* the forEach of lines 104-121
DeductFrom(score, suggestions, i) ==
    IF i > Len(suggestions) THEN score
    ELSE DeductFrom(score - Deduction(suggestions[i]), suggestions, i + 1)

Max(a, b) == IF a >= b THEN a ELSE b

Min(a, b) == IF a <= b THEN a ELSE b

\* the bonus points for good structure (lines 127-129)
Bonus(p) ==
    (IF Len(p.sections) >= 3 THEN 5 ELSE 0)
    + (IF Len(p.codeBlocks) > 0 THEN 5 ELSE 0)
    + (IF p.lineCount >= 10 /\ p.lineCount <= 150 THEN 5 ELSE 0)

\* calculateScore, without the upper clamp of line 132
calculateScore_Unclamped(p, suggestions) ==
    Max(0, DeductFrom(100, suggestions, 1)) + Bonus(p)

\* lines 100-133
calculateScore(p, suggestions) ==
    Min(100, Max(0, DeductFrom(100, suggestions, 1)) + Bonus(p))

IsSuccess(sug) == sug.type = "success"

IsHighIssue(sug) == sug.priority = "high" /\ sug.type # "success"

SummaryWellStructured == "Your AGENTS.md is well-structured and ready to help agents work effectively!"
SummaryLooksGood == "Your AGENTS.md looks good with just a few suggestions for improvement."
SummaryGoodBasics == "Your AGENTS.md has good basics but could be improved in a few areas."
SummaryNeedsWork == "Your AGENTS.md needs some work. Focus on the high-priority suggestions first."
SummaryHighPriority == "Start by addressing the high-priority suggestions to improve your AGENTS.md."
SummaryAddContent == "Add more content and structure to help agents understand your project."
SummaryEmpty == "Empty file - add content to get started"

\* generateSummary, were the score looked at before the success suggestions
generateSummary_ScoreFirst(suggestions, score) ==
    LET successSuggestions      == SelectSeq(suggestions, IsSuccess)
        highPrioritySuggestions == SelectSeq(suggestions, IsHighIssue)
    IN  IF score >= 80 THEN SummaryLooksGood
        ELSE IF score >= 60 THEN SummaryGoodBasics
        ELSE IF score >= 40 THEN SummaryNeedsWork
        ELSE IF Len(successSuggestions) > 0 THEN SummaryWellStructured
        ELSE IF Len(highPrioritySuggestions) > 0 THEN SummaryHighPriority
        ELSE SummaryAddContent

\* lines 138-164
generateSummary(suggestions, score) ==
    LET successSuggestions      == SelectSeq(suggestions, IsSuccess)
        highPrioritySuggestions == SelectSeq(suggestions, IsHighIssue)
    IN  IF Len(successSuggestions) > 0 THEN SummaryWellStructured
        ELSE IF score >= 80 THEN SummaryLooksGood
        ELSE IF score >= 60 THEN SummaryGoodBasics
        ELSE IF score >= 40 THEN SummaryNeedsWork
        ELSE IF Len(highPrioritySuggestions) > 0 THEN SummaryHighPriority
        ELSE SummaryAddContent

\* the result for empty content (lines 29-53)
EmptyResult ==
    [suggestions |-> <<Suggestion("tip", "Get started with AGENTS.md", "high", <<>>)>>,
     score       |-> 0,
     summary     |-> SummaryEmpty]

\* IsBlank, were the content not trimmed
IsBlank_Untrimmed(text) == Len(text) = 0

\* !content || content.trim().length === 0 (line 28)
IsBlank(text) == Len(text) = 0 \/ Len(trim(text)) = 0

\* the suggestions in the order the rules are run (lines 59-78)
RunRules(p, text) ==
    checkLength(p)
    \o checkMinimumContent(p)
    \o checkCommonSections(p)
    \o checkCommandFormatting(p, text)
    \o checkVersionSpecificity(text)
    \o checkReadability(p)
    \o checkWellFormed(p, text)

\* lines 80-94, for the parse p of a content that is not blank
Aggregate(p, text) ==
    LET suggestions == SortByPriority(RunRules(p, text))
        score       == calculateScore(p, suggestions)
    IN  [suggestions |-> suggestions,
         score       |-> score,
         summary     |-> generateSummary(suggestions, score)]

\* one call: the local parsed (<<>> when the parser is not run), the value
\* returned, and the lastIndex pair the call leaves in versionPatterns
\* (hasVersionSpecificity is called only when a tool was found, line 186)
Call(text) ==
    IF IsBlank(text)
    THEN [parsed |-> <<>>, result |-> EmptyResult, patterns |-> versionPatterns]
    ELSE LET p == parseMarkdown(text)
         IN  [parsed   |-> <<p>>,
              result   |-> Aggregate(p, text),
              patterns |-> IF Len(FoundTools(text)) > 0
                           THEN VersionSome(text, versionPatterns).lastIndex
                           ELSE versionPatterns]

validateAgentsMd(text) == Call(text).result

(***************************************************************************)
(* ValidatorPage (pages/validator.tsx): the edited content, its debounced  *)
(* copy and the timeouts of the debounce effect.  A timeout is named by    *)
(* the content its callback has captured; time is not measured, a pending  *)
(* timeout may fire at any moment.                                         *)
(***************************************************************************)
\* clearTimeout, were the effect to return no cleanup
clearTimeout_Missing(ts, t) == ts

\* clearTimeout(timer) of the cleanup (line 52): the timeout armed by the
\* effect that captured t is pending no more
clearTimeout(ts, t) == ts \ {t}

\* setTimeout(() => setDebouncedContent(content), DEBOUNCE_MS) (lines 48-50)
setTimeout(ts, c) == ts \cup {c}

\* the page is not shown
PageAbsent ==
    /\ pageContent = <<>>
    /\ debouncedContent = <<>>
    /\ timers = {}
    /\ mounted = FALSE

\* the page after its first render: both states are '' (lines 43-44) and
\* the effect has run once
PageInit ==
    /\ pageContent = <<>>
    /\ debouncedContent = <<>>
    /\ timers = setTimeout({}, <<>>)
    /\ mounted = TRUE

(***************************************************************************)
(* GeneratorWizard (components/GeneratorWizard): the step, the answers and *)
(* the preview switch.  Texts are strings here: the wizard is looked at    *)
(* for its navigation, the Markdown it generates is not computed.          *)
(***************************************************************************)
\* line 69
totalSteps == 4

\* lines 22-37
initialData ==
    [projectName         |-> "",
     projectDescription  |-> "",
     packageManager      |-> "npm",
     installCommand      |-> "",
     devCommand          |-> "",
     buildCommand        |-> "",
     testCommand         |-> "",
     lintCommand         |-> "",
     codeStyle           |-> <<>>,
     customCodeStyle     |-> "",
     testingInstructions |-> "",
     prGuidelines        |-> "",
     securityNotes       |-> "",
     additionalNotes     |-> ""]

\* lines 39-49
packageManagerCommands ==
    [pm \in {"npm", "yarn", "pnpm", "bun", "pip", "poetry", "cargo", "go", "other"} |->
        CASE pm = "npm" -> [install |-> "npm install", dev |-> "npm run dev",
                            build |-> "npm run build", test |-> "npm test",
                            lint |-> "npm run lint"]
          [] pm = "yarn" -> [install |-> "yarn install", dev |-> "yarn dev",
                             build |-> "yarn build", test |-> "yarn test",
                             lint |-> "yarn lint"]
          [] pm = "pnpm" -> [install |-> "pnpm install", dev |-> "pnpm dev",
                             build |-> "pnpm build", test |-> "pnpm test",
                             lint |-> "pnpm lint"]
          [] pm = "bun" -> [install |-> "bun install", dev |-> "bun dev",
                            build |-> "bun run build", test |-> "bun test",
                            lint |-> "bun lint"]
          [] pm = "pip" -> [install |-> "pip install -r requirements.txt",
                            dev |-> "python main.py", build |-> "",
                            test |-> "pytest", lint |-> "ruff check ."]
          [] pm = "poetry" -> [install |-> "poetry install",
                               dev |-> "poetry run python main.py",
                               build |-> "poetry build", test |-> "poetry run pytest",
                               lint |-> "poetry run ruff check ."]
          [] pm = "cargo" -> [install |-> "cargo build", dev |-> "cargo run",
                              build |-> "cargo build --release", test |-> "cargo test",
                              lint |-> "cargo clippy"]
          [] pm = "go" -> [install |-> "go mod download", dev |-> "go run .",
                           build |-> "go build", test |-> "go test ./...",
                           lint |-> "golangci-lint run"]
          [] pm = "other" -> [install |-> "", dev |-> "", build |-> "",
                              test |-> "", lint |-> ""]]

\* lines 448-453
stepTitles == <<"Project Info", "Setup Commands", "Code Style", "Guidelines">>

\* setData((prev) => ({ ...prev, [field]: value })) (lines 71-73)
updateData(d, field, value) == [d EXCEPT ![field] = value]

\* lines 75-85: the six updates are applied one after the other
handlePackageManagerChange(d, pm) ==
    LET d1 == updateData(d, "packageManager", pm)
    IN  IF pm \in DOMAIN packageManagerCommands
        THEN LET commands == packageManagerCommands[pm]
             IN  updateData(updateData(updateData(updateData(updateData(d1,
                     "installCommand", commands.install),
                     "devCommand", commands.dev),
                     "buildCommand", commands.build),
                     "testCommand", commands.test),
                     "lintCommand", commands.lint)
        ELSE d1

\* lines 87-94
toggleCodeStyle(d, styleId) ==
    LET current == d.codeStyle
        Other(x) == x # styleId
    IN  IF \E i \in 1..Len(current) : current[i] = styleId
        THEN updateData(d, "codeStyle", SelectSeq(current, Other))
        ELSE updateData(d, "codeStyle", Append(current, styleId))

\* BackUpdate, were the step not kept at 1 or above
BackUpdate_Unclamped(s) == s - 1

\* (s) => Math.max(1, s - 1) of the Back button (line 506)
BackUpdate(s) == Max(1, s - 1)

\* (s) => Math.min(totalSteps, s + 1) of the Next button (line 525)
NextUpdate(s) == Min(totalSteps, s + 1)

\* the wizard after its first render (lines 64-67)
WizardInit ==
    /\ step = 1
    /\ data = initialData
    /\ showPreview = FALSE

(***************************************************************************)
(* The validator specification: one call of validateAgentsMd on every      *)
(* input made of at most MaxFrags fragments of FragPool, one per line      *)
(* group, followed by a number of empty lines drawn from PadSet.           *)
(***************************************************************************)
\* # T
FragTitle ==
    <<"#"," ","T">>

\* ## Setup\nrun `npm install` now
FragSetup ==
    <<"#","#"," ","S","e","t","u","p","\n","r","u","n"," ",BT,"n","p","m"," ","i","n","s","t","a","l","l",BT," ","n","o","w">>

\* ## Testing\nrun `npm test` now
FragTesting ==
    <<"#","#"," ","T","e","s","t","i","n","g","\n","r","u","n"," ",BT,"n","p","m"," ","t","e","s","t",BT," ","n","o","w">>

\* # Style\nlint all the files
FragStyle ==
    <<"#"," ","S","t","y","l","e","\n","l","i","n","t"," ","a","l","l"," ","t","h","e"," ","f","i","l","e","s">>

\* ```\nnpm start\n```
FragCode ==
    <<BT,BT,BT,"\n","n","p","m"," ","s","t","a","r","t","\n",BT,BT,BT>>

\* React is used
FragTool ==
    <<"R","e","a","c","t"," ","i","s"," ","u","s","e","d">>

\* step 2
FragVersion ==
    <<"s","t","e","p"," ","2">>

\* `a b` `a b` `a b` `a b` `a b` `a b`
FragCommands ==
    <<BT,"a"," ","b",BT," ",BT,"a"," ","b",BT," ",BT,"a"," ","b",BT," ",BT,"a"," ","b",BT," ",BT,"a"," ","b",BT," ",BT,"a"," ","b",BT>>

FragPool ==
    {FragTitle, FragSetup, FragTesting, FragStyle, FragCode, FragTool, FragVersion,
     FragCommands}

\* numbers of trailing empty lines: they put lineCount on both sides of 5,
\* 10, 150 and 200, and a section's content on both sides of 50 lines
PadSet == {0, 4, 49, 145, 198}

Doc(body, pad) == Join(body, <<"\n">>) \o [i \in 1..pad |-> "\n"]

Docs ==
    { Doc(body, pad) :
        body \in UNION { [1..n -> FragPool] : n \in 0..MaxFrags }, pad \in PadSet }

\* EXAMPLE_CONTENT of the validator page (validator.tsx lines 10-38), a line
\* of the template literal per entry
EXAMPLE_CONTENT ==
    Join(<<
      \* # AGENTS.md
      <<"#"," ","A","G","E","N","T","S",".","m","d">>,
      \* (empty)
      <<>>,
      \* ## Setup
      <<"#","#"," ","S","e","t","u","p">>,
      \* - Install dependencies: `pnpm install`
      <<"-"," ","I","n","s","t","a","l","l"," ","d","e","p","e","n","d","e","n","c","i","e","s",":"," ",BT,"p","n","p","m"," ","i","n","s","t","a","l","l",BT>>,
      \* - Start dev server: `pnpm dev`
      <<"-"," ","S","t","a","r","t"," ","d","e","v"," ","s","e","r","v","e","r",":"," ",BT,"p","n","p","m"," ","d","e","v",BT>>,
      \* - Build for production: `pnpm build`
      <<"-"," ","B","u","i","l","d"," ","f","o","r"," ","p","r","o","d","u","c","t","i","o","n",":"," ",BT,"p","n","p","m"," ","b","u","i","l","d",BT>>,
      \* (empty)
      <<>>,
      \* ## Testing
      <<"#","#"," ","T","e","s","t","i","n","g">>,
      \* - Run all tests: `pnpm test`
      <<"-"," ","R","u","n"," ","a","l","l"," ","t","e","s","t","s",":"," ",BT,"p","n","p","m"," ","t","e","s","t",BT>>,
      \* - Run specific test: `pnpm test -- <pattern>`
      <<"-"," ","R","u","n"," ","s","p","e","c","i","f","i","c"," ","t","e","s","t",":"," ",BT,"p","n","p","m"," ","t","e","s","t"," ","-","-"," ","<","p","a","t","t","e","r","n",">",BT>>,
      \* - Lint code: `pnpm lint`
      <<"-"," ","L","i","n","t"," ","c","o","d","e",":"," ",BT,"p","n","p","m"," ","l","i","n","t",BT>>,
      \* (empty)
      <<>>,
      \* ## Code style
      <<"#","#"," ","C","o","d","e"," ","s","t","y","l","e">>,
      \* - TypeScript strict mode enabled
      <<"-"," ","T","y","p","e","S","c","r","i","p","t"," ","s","t","r","i","c","t"," ","m","o","d","e"," ","e","n","a","b","l","e","d">>,
      \* - Use functional components with hooks
      <<"-"," ","U","s","e"," ","f","u","n","c","t","i","o","n","a","l"," ","c","o","m","p","o","n","e","n","t","s"," ","w","i","t","h"," ","h","o","o","k","s">>,
      \* - Single quotes, no semicolons
      <<"-"," ","S","i","n","g","l","e"," ","q","u","o","t","e","s",","," ","n","o"," ","s","e","m","i","c","o","l","o","n","s">>,
      \* - Prefer named exports over default exports
      <<"-"," ","P","r","e","f","e","r"," ","n","a","m","e","d"," ","e","x","p","o","r","t","s"," ","o","v","e","r"," ","d","e","f","a","u","l","t"," ","e","x","p","o","r","t","s">>,
      \* (empty)
      <<>>,
      \* ## Architecture
      <<"#","#"," ","A","r","c","h","i","t","e","c","t","u","r","e">>,
      \* - Next.js 16 with Pages Router
      <<"-"," ","N","e","x","t",".","j","s"," ","1","6"," ","w","i","t","h"," ","P","a","g","e","s"," ","R","o","u","t","e","r">>,
      \* - React 19 for UI components
      <<"-"," ","R","e","a","c","t"," ","1","9"," ","f","o","r"," ","U","I"," ","c","o","m","p","o","n","e","n","t","s">>,
      \* - Tailwind CSS 4 for styling
      <<"-"," ","T","a","i","l","w","i","n","d"," ","C","S","S"," ","4"," ","f","o","r"," ","s","t","y","l","i","n","g">>,
      \* - TypeScript 5 for type safety
      <<"-"," ","T","y","p","e","S","c","r","i","p","t"," ","5"," ","f","o","r"," ","t","y","p","e"," ","s","a","f","e","t","y">>,
      \* (empty)
      <<>>,
      \* ## Git workflow
      <<"#","#"," ","G","i","t"," ","w","o","r","k","f","l","o","w">>,
      \* - Create feature branches from main
      <<"-"," ","C","r","e","a","t","e"," ","f","e","a","t","u","r","e"," ","b","r","a","n","c","h","e","s"," ","f","r","o","m"," ","m","a","i","n">>,
      \* - Run tests before committing
      <<"-"," ","R","u","n"," ","t","e","s","t","s"," ","b","e","f","o","r","e"," ","c","o","m","m","i","t","t","i","n","g">>,
      \* - Write clear commit messages
      <<"-"," ","W","r","i","t","e"," ","c","l","e","a","r"," ","c","o","m","m","i","t"," ","m","e","s","s","a","g","e","s">>,
      \* - Open PR for review before merging
      <<"-"," ","O","p","e","n"," ","P","R"," ","f","o","r"," ","r","e","v","i","e","w"," ","b","e","f","o","r","e"," ","m","e","r","g","i","n","g">>
    >>, <<"\n">>)

\* the lines '# T', '', '## Setup', '- x: `pnpm install`' and a trailing newline
MinimalDoc ==
    <<"#"," ","T","\n","\n","#","#"," ","S","e","t","u","p","\n","-"," ","x",":"," ",BT,"p","n","p","m"," ","i","n","s","t","a","l","l",BT,"\n">>

\* inputs of 210 lines with three sections: six lines of fragments, then 204
\* empty lines, or an opening fence and 203 empty lines
LongDocs ==
    LET LongBodies == [1..3 -> {FragSetup, FragTesting, FragStyle}]
    IN  { Doc(body, 204) : body \in LongBodies }
        \cup { Doc(body \o <<Fence>>, 203) : body \in LongBodies }

\* install test lint\n# T\nsome words here
TopicsBeforeHeading ==
    <<"i","n","s","t","a","l","l"," ","t","e","s","t"," ","l","i","n","t","\n","#"," ","T","\n","s","o","m","e"," ","w","o","r","d","s"," ","h","e","r","e">>

\* # T\nsome words here\n```\ninstall test lint\n```
TopicsInFence ==
    <<"#"," ","T","\n","s","o","m","e"," ","w","o","r","d","s"," ","h","e","r","e","\n",BT,BT,BT,"\n","i","n","s","t","a","l","l"," ","t","e","s","t"," ","l","i","n","t","\n",BT,BT,BT>>

\* install test lint
TopicsNoSection ==
    <<"i","n","s","t","a","l","l"," ","t","e","s","t"," ","l","i","n","t">>

\* # T\ninstall test lint
TopicsInSection ==
    <<"#"," ","T","\n","i","n","s","t","a","l","l"," ","t","e","s","t"," ","l","i","n","t">>

\* # Installation tests\nlinting is done
TopicsAsSubstrings ==
    <<"#"," ","I","n","s","t","a","l","l","a","t","i","o","n"," ","t","e","s","t","s","\n","l","i","n","t","i","n","g"," ","i","s"," ","d","o","n","e">>

\* # T\n  123456789  : a content of 9 characters when trimmed
NineCharacters ==
    <<"#"," ","T","\n"," "," ","1","2","3","4","5","6","7","8","9"," "," ">>

\* # T\n  1234567890  : a content of 10 characters when trimmed
TenCharacters ==
    <<"#"," ","T","\n"," "," ","1","2","3","4","5","6","7","8","9","0"," "," ">>

\* lines that name a tool with or without a version, or hold a token of a
\* word and a number: one such line, or two of them
VersionDocs ==
    LET VersionLines ==
          {
            \* React is used
            <<"R","e","a","c","t"," ","i","s"," ","u","s","e","d">>,
            \* React 18 is used
            <<"R","e","a","c","t"," ","1","8"," ","i","s"," ","u","s","e","d">>,
            \* React 18x
            <<"R","e","a","c","t"," ","1","8","x">>,
            \* Node.js 20
            <<"N","o","d","e",".","j","s"," ","2","0">>,
            \* Node.js 20x
            <<"N","o","d","e",".","j","s"," ","2","0","x">>,
            \* Node v20
            <<"N","o","d","e"," ","v","2","0">>,
            \* Node v2x
            <<"N","o","d","e"," ","v","2","x">>,
            \* Next.js 16
            <<"N","e","x","t",".","j","s"," ","1","6">>,
            \* Next 1x
            <<"N","e","x","t"," ","1","x">>,
            \* Python 3.12.1
            <<"P","y","t","h","o","n"," ","3",".","1","2",".","1">>,
            \* TypeScript
            <<"T","y","p","e","S","c","r","i","p","t">>,
            \* step 2
            <<"s","t","e","p"," ","2">>,
            \* step v2
            <<"s","t","e","p"," ","v","2">>,
            \* build 2.0.1x
            <<"b","u","i","l","d"," ","2",".","0",".","1","x">>,
            \* no tools
            <<"n","o"," ","t","o","o","l","s">>
          }
    IN  VersionLines \cup { a \o <<"\n">> \o b : a \in VersionLines, b \in VersionLines }

\* two top-level headings, the first with no content, then six inline
\* commands, a tool without a version and 200 empty lines: every rule that
\* can fire on a file with sections does
EverythingWrong ==
    Doc(<<<<"#"," ","A">>, <<"#"," ","B">>,
          FragCommands \o <<" ","R","e","a","c","t">>>>, 200)

\* a file that is well formed and has every fault a well-formed file can
\* have: no setup topic, two top-level headings, the first with no content,
\* seven inline commands and no code block, a tool without a version, and a
\* last section of more than 50 lines
WellFormedAtWorst ==
    Doc(<<<<"#"," ","A">>, FragStyle, FragCommands \o <<" ","R","e","a","c","t">>, FragTesting>>, 60)

ScenarioDocs ==
    {EXAMPLE_CONTENT, MinimalDoc, NineCharacters, TenCharacters, EverythingWrong,
     WellFormedAtWorst}
    \cup {TopicsBeforeHeading, TopicsInFence, TopicsNoSection, TopicsInSection,
          TopicsAsSubstrings}
    \cup LongDocs \cup VersionDocs

Init ==
    /\ content \in Docs \cup ScenarioDocs
    /\ pc = "ready"
    /\ lines = <<>>
    /\ index = 0
    /\ scan = ScanInit
    /\ parsed = <<>>
    /\ result = <<>>
    /\ versionPatterns = <<0, 0>>
    /\ history = <<>>
    /\ PageAbsent
    /\ WizardInit

\* validateAgentsMd(content) is called and returns
Validate ==
    /\ pc = "ready"
    /\ LET c == Call(content)
       IN  /\ parsed' = c.parsed
           /\ result' = <<c.result>>
           /\ versionPatterns' = c.patterns
    /\ pc' = "done"
    /\ UNCHANGED <<content, lines, index, scan, history>>
    /\ UNCHANGED <<pageVars, wizardVars>>

Next == Validate

Spec == Init /\ [][Next]_vars

(***************************************************************************)
(* The scanner specification: parseMarkdown one line at a time, on every   *)
(* input of at most MaxLines lines drawn from ScanLinePool.                *)
(***************************************************************************)
ScanLinePool ==
    { <<>>,
      <<"x">>,
      <<"#", " ", "T">>,
      <<"#", "#", " ", "S">>,
      <<"#", " ", " ">>,
      <<"#", " ", "T", "\r">>,
      <<"#", "#", "#", "#", "#", "#", "#", " ", "x">>,
      <<BT, BT, BT>>,
      <<" ", BT, BT, BT, "j", "s">> }

ScanDocs ==
    { Join(ls, <<"\n">>) : ls \in UNION { [1..n -> ScanLinePool] : n \in 1..MaxLines } }

ScanSpecInit ==
    /\ content \in ScanDocs
    /\ pc = "ready"
    /\ lines = <<>>
    /\ index = 0
    /\ scan = ScanInit
    /\ parsed = <<>>
    /\ result = <<>>
    /\ versionPatterns = <<0, 0>>
    /\ history = <<>>
    /\ PageAbsent
    /\ WizardInit

\* parseMarkdown is entered: the input is split (lines 36-43)
ScanStart ==
    /\ pc = "ready"
    /\ lines' = split(content)
    /\ index' = 0
    /\ scan' = ScanInit
    /\ pc' = "scan"
    /\ UNCHANGED <<content, parsed, result, versionPatterns, history>>
    /\ UNCHANGED <<pageVars, wizardVars>>

\* one call of the forEach callback (lines 45-89)
ScanStep ==
    /\ pc = "scan"
    /\ index < Len(lines)
    /\ scan' = ScanLine(scan, lines[index + 1], index + 1)
    /\ index' = index + 1
    /\ UNCHANGED <<content, pc, lines, parsed, result, versionPatterns, history>>
    /\ UNCHANGED <<pageVars, wizardVars>>

\* the forEach is over: flush and return (lines 91-102)
ScanFinish ==
    /\ pc = "scan"
    /\ index = Len(lines)
    /\ parsed' = <<ScanResult(scan, lines, content)>>
    /\ pc' = "done"
    /\ UNCHANGED <<content, lines, index, scan, result, versionPatterns, history>>
    /\ UNCHANGED <<pageVars, wizardVars>>

ScanNext == ScanStart \/ ScanStep \/ ScanFinish

ScanSpec == ScanSpecInit /\ [][ScanNext]_vars

(***************************************************************************)
(* The repeated-call specification: up to MaxCalls calls of                *)
(* validateAgentsMd, one after the other, on inputs drawn from CallDocs.   *)
(***************************************************************************)
CallDocs ==
    { Doc(<<>>, 0),
      Doc(<<FragTool>>, 0),
      Doc(<<FragTool, FragVersion>>, 0),
      Doc(<<FragVersion, FragTool>>, 4),
      Doc(<<FragSetup, FragTesting, FragStyle>>, 4) }

CallsInit ==
    /\ content = <<>>
    /\ pc = "ready"
    /\ lines = <<>>
    /\ index = 0
    /\ scan = ScanInit
    /\ parsed = <<>>
    /\ result = <<>>
    /\ versionPatterns = <<0, 0>>
    /\ history = <<>>
    /\ PageAbsent
    /\ WizardInit

\* validateAgentsMd(d) is called and returns
CallValidate(d) ==
    /\ Len(history) < MaxCalls
    /\ content' = d
    /\ LET c == Call(d)
       IN  /\ parsed' = c.parsed
           /\ result' = <<c.result>>
           /\ versionPatterns' = c.patterns
           /\ history' = Append(history, [input |-> d, result |-> c.result])
    /\ UNCHANGED <<pc, lines, index, scan>>
    /\ UNCHANGED <<pageVars, wizardVars>>

CallsNext == \E d \in CallDocs : CallValidate(d)

CallsSpec == CallsInit /\ [][CallsNext]_vars

(***************************************************************************)
(* The page specification: the content is changed by typing, by Load       *)
(* Example and by Clear; the pending timeout fires; the page is left.      *)
(***************************************************************************)
MaxTyped == 2

\* the values the textarea can hand to onChange
TypedTexts == UNION { [1..n -> {"a", "\n"}] : n \in 0..MaxTyped }

PageTexts == TypedTexts \cup {EXAMPLE_CONTENT}

DebounceInit ==
    /\ PageInit
    /\ content = <<>>
    /\ pc = "ready"
    /\ lines = <<>>
    /\ index = 0
    /\ scan = ScanInit
    /\ parsed = <<>>
    /\ result = <<>>
    /\ versionPatterns = <<0, 0>>
    /\ history = <<>>
    /\ WizardInit

\* setContent(c): a state set to the value it has makes no render and no
\* effect; a new value makes the effect run, cleanup first (lines 47-53)
setContent(c) ==
    /\ mounted
    /\ c # pageContent
    /\ pageContent' = c
    /\ timers' = setTimeout(clearTimeout(timers, pageContent), c)
    /\ UNCHANGED <<debouncedContent, mounted, validatorVars, wizardVars>>

\* onChange={setContent} of the editor (line 135)
OnChange == \E c \in TypedTexts : setContent(c)

\* lines 60-62
loadExample == setContent(EXAMPLE_CONTENT)

\* lines 64-66
clearContent == setContent(<<>>)

\* the pending timeout that captured c fires: setDebouncedContent(content)
\* (line 49); a page that was left sets no state
TimerFires(c) ==
    /\ c \in timers
    /\ timers' = timers \ {c}
    /\ debouncedContent' = IF mounted THEN c ELSE debouncedContent
    /\ UNCHANGED <<pageContent, mounted, validatorVars, wizardVars>>

\* useMemo(() => validateAgentsMd(debouncedContent), [debouncedContent])
\* (lines 56-58): the result shown is the one of the debounced content
validationResult == validateAgentsMd(debouncedContent)


\* the page is left: the cleanup of the last effect runs (line 52)
Unmount ==
    /\ mounted
    /\ mounted' = FALSE
    /\ timers' = clearTimeout(timers, pageContent)
    /\ UNCHANGED <<pageContent, debouncedContent, validatorVars, wizardVars>>

DebounceNext ==
    \/ OnChange
    \/ loadExample
    \/ clearContent
    \/ \E c \in PageTexts : TimerFires(c)
    \/ Unmount

\* a timeout that stays pending fires: the event loop runs every timeout
\* that is due and was not cleared; one that is cleared and armed anew with
\* every change need not fire
DebounceSpec ==
    /\ DebounceInit
    /\ [][DebounceNext]_vars
    /\ \A c \in PageTexts : WF_vars(TimerFires(c))

(***************************************************************************)
(* The wizard specification: the buttons that are rendered are clicked and *)
(* the inputs of the step shown are changed.                               *)
(***************************************************************************)
\* onChange of a text input (lines 206-400), for one input of each step
\* that has some
ChangeText ==
    \E field \in {"projectName", "installCommand", "additionalNotes"}, value \in {"", "x"} :
        /\ ~showPreview
        /\ step = (CASE field = "projectName" -> 1
                     [] field = "installCommand" -> 2
                     [] field = "additionalNotes" -> 4)
        /\ data' = updateData(data, field, value)
        /\ UNCHANGED <<step, showPreview, validatorVars, pageVars>>

\* onChange of the package manager select of step 1 (line 229)
ChangePackageManager ==
    \E pm \in {"npm", "pip", "other"} :
        /\ ~showPreview
        /\ step = 1
        /\ data' = handlePackageManagerChange(data, pm)
        /\ UNCHANGED <<step, showPreview, validatorVars, pageVars>>

\* onChange of a code style checkbox of step 3 (line 333)
ToggleCodeStyle ==
    \E styleId \in {"single-quotes", "tabs"} :
        /\ ~showPreview
        /\ step = 3
        /\ data' = toggleCodeStyle(data, styleId)
        /\ UNCHANGED <<step, showPreview, validatorVars, pageVars>>

\* a button of the progress indicator (line 474)
ClickStepIndicator ==
    \E idx \in 0..(Len(stepTitles) - 1) :
        /\ ~showPreview
        /\ step' = idx + 1
        /\ UNCHANGED <<data, showPreview, validatorVars, pageVars>>

\* Back, disabled at step 1 (lines 505-507)
ClickBack ==
    /\ ~showPreview
    /\ step # 1
    /\ step' = BackUpdate(step)
    /\ UNCHANGED <<data, showPreview, validatorVars, pageVars>>

\* Preview (line 518)
ClickPreview ==
    /\ ~showPreview
    /\ showPreview' = TRUE
    /\ UNCHANGED <<step, data, validatorVars, pageVars>>

\* Next, rendered while step < totalSteps (lines 523-525)
ClickNext ==
    /\ ~showPreview
    /\ step < totalSteps
    /\ step' = NextUpdate(step)
    /\ UNCHANGED <<data, showPreview, validatorVars, pageVars>>

\* Generate, rendered in the place of Next at the last step (lines 530-532)
ClickGenerate ==
    /\ ~showPreview
    /\ ~(step < totalSteps)
    /\ showPreview' = TRUE
    /\ UNCHANGED <<step, data, validatorVars, pageVars>>

\* Back to Editor, rendered with the preview (line 546)
ClickBackToEditor ==
    /\ showPreview
    /\ showPreview' = FALSE
    /\ UNCHANGED <<step, data, validatorVars, pageVars>>

WizardSpecInit ==
    /\ WizardInit
    /\ PageAbsent
    /\ content = <<>>
    /\ pc = "ready"
    /\ lines = <<>>
    /\ index = 0
    /\ scan = ScanInit
    /\ parsed = <<>>
    /\ result = <<>>
    /\ versionPatterns = <<0, 0>>
    /\ history = <<>>

WizardNext ==
    \/ ChangeText
    \/ ChangePackageManager
    \/ ToggleCodeStyle
    \/ ClickStepIndicator
    \/ ClickBack
    \/ ClickPreview
    \/ ClickNext
    \/ ClickGenerate
    \/ ClickBackToEditor

WizardSpec == WizardSpecInit /\ [][WizardNext]_vars

(***************************************************************************)
(* Properties.  The statements read the input and the values returned;     *)
(* what they expect is restated here and not taken from the definitions    *)
(* above.                                                                  *)
(***************************************************************************)
Returned == pc = "done" /\ Len(result) = 1

\* the input is empty or holds whitespace only
BlankInput == \A i \in 1..Len(content) : content[i] \in {" ", "\t", "\n", "\r"}

TheSuggestions == result[1].suggestions

Has(title) == \E i \in 1..Len(TheSuggestions) : TheSuggestions[i].title = title

HasSuccess == \E i \in 1..Len(TheSuggestions) : TheSuggestions[i].type = "success"

\* rank(high) = 0, rank(medium) = 1, rank(low) = 2
PriorityRank(sug) ==
    CASE sug.priority = "high" -> 0
      [] sug.priority = "medium" -> 1
      [] sug.priority = "low" -> 2

\* C1: every call returns a result whose score is an integer with
\* 0 <= score <= 100.
C1_ScoreInRange ==
    pc = "done" => /\ Len(result) = 1
                   /\ result[1].score \in 0..100

\* C1 witness: a call on a non-blank input has returned the score 100.
C1_Witness == Returned /\ ~BlankInput /\ result[1].score = 100

\* C2: in the list returned, ranks never decrease from one position to a
\* later one, success suggestions included.
C2_PriorityOrdered ==
    Returned =>
        \A i, j \in 1..Len(TheSuggestions) :
            i < j => PriorityRank(TheSuggestions[i]) <= PriorityRank(TheSuggestions[j])

\* C2 witness: a list with all three priorities and a success suggestion,
\* which the rules did not emit in the order returned.
C2_Witness ==
    /\ Returned
    /\ HasSuccess
    /\ \A r \in 0..2 : \E i \in 1..Len(TheSuggestions) : PriorityRank(TheSuggestions[i]) = r
    /\ Has("Consider documenting code style")
    /\ Has("Empty sections detected")

\* C3: any two calls on the same input return the same result, whatever
\* calls were made between them.
C3_Deterministic ==
    \A i, j \in 1..Len(history) :
        history[i].input = history[j].input => history[i].result = history[j].result

\* C3 witness: the first and third call have the same input, which names a
\* tool and holds a word-then-number token, and the second call another.
C3_Witness ==
    /\ Len(history) = 3
    /\ history[1].input = history[3].input
    /\ history[2].input # history[1].input
    /\ history[1].input = Doc(<<FragTool, FragVersion>>, 0)
    /\ versionPatterns # <<0, 0>>

\* the result fixed for blank input
GetStarted ==
    [suggestions |-> <<[type |-> "tip", title |-> "Get started with AGENTS.md",
                        priority |-> "high", args |-> <<>>]>>,
     score       |-> 0,
     summary     |-> "Empty file - add content to get started"]

\* C4: for an empty or whitespace-only input the call returns the one
\* get-started tip, score 0 and the fixed summary, and the parser is not run.
C4_BlankInput ==
    (Returned /\ BlankInput) => (result[1] = GetStarted /\ parsed = <<>>)

\* C4 witness: a call on an input of whitespace only has returned.
C4_Witness == Returned /\ BlankInput /\ Len(content) > 0

\* C5: parseMarkdown returns as many sections as headings, the i-th section
\* with the title, level and lineNumber of the i-th heading.
C5_SectionPerHeading ==
    (pc = "done" /\ Len(parsed) = 1) =>
        /\ Len(parsed[1].headings) = Len(parsed[1].sections)
        /\ \A i \in 1..Len(parsed[1].headings) :
              /\ i <= Len(parsed[1].sections)
              /\ parsed[1].sections[i].title = parsed[1].headings[i].text
              /\ parsed[1].sections[i].level = parsed[1].headings[i].level
              /\ parsed[1].sections[i].lineNumber = parsed[1].headings[i].lineNumber

\* C5 witness: a parse that returned two headings and a code block.
C5_Witness ==
    /\ pc = "done"
    /\ Len(parsed) = 1
    /\ Len(parsed[1].headings) = 2
    /\ Len(parsed[1].codeBlocks) = 1

\* the line's trimmed form starts with three backticks
IsFenceLine(line) ==
    \E k \in 1..Len(line) :
        /\ \A j \in 1..(k - 1) : line[j] \in {" ", "\t", "\n", "\r"}
        /\ k + 2 <= Len(line)
        /\ line[k] = BT /\ line[k + 1] = BT /\ line[k + 2] = BT

\* m: the number of fence lines of the input
FenceLineCount == Cardinality({i \in 1..Len(lines) : IsFenceLine(lines[i])})

\* C6: parseMarkdown returns floor(m / 2) code blocks.
C6_FenceBalance ==
    (pc = "done" /\ Len(parsed) = 1) =>
        Len(parsed[1].codeBlocks) = FenceLineCount \div 2

\* C6 witness: three fence lines, so the last opened block is dropped.
C6_Witness ==
    /\ pc = "done"
    /\ Len(parsed) = 1
    /\ FenceLineCount = 3
    /\ Len(parsed[1].codeBlocks) = 1

\* D: 15, 8 or 3 for each suggestion that is no success
RECURSIVE ExpectedDeductions(_)
ExpectedDeductions(sugs) ==
    IF sugs = <<>> THEN 0
    ELSE (IF Head(sugs).type = "success" THEN 0
          ELSE CASE Head(sugs).priority = "high" -> 15
                 [] Head(sugs).priority = "medium" -> 8
                 [] Head(sugs).priority = "low" -> 3)
         + ExpectedDeductions(Tail(sugs))

\* B: 5 for each of the three bonuses
ExpectedBonus ==
    (IF Len(parsed[1].sections) >= 3 THEN 5 ELSE 0)
    + (IF Len(parsed[1].codeBlocks) > 0 THEN 5 ELSE 0)
    + (IF parsed[1].lineCount >= 10 /\ parsed[1].lineCount <= 150 THEN 5 ELSE 0)

ExpectedScore ==
    LET low == IF 100 - ExpectedDeductions(TheSuggestions) > 0
               THEN 100 - ExpectedDeductions(TheSuggestions) ELSE 0
    IN  IF low + ExpectedBonus < 100 THEN low + ExpectedBonus ELSE 100

\* C7: for a non-blank input, score = min(100, max(0, 100 - D) + B).
C7_ScoreFormula ==
    (Returned /\ ~BlankInput) => result[1].score = ExpectedScore

\* C7 witness: a result below 100 with an info suggestion, a success
\* suggestion and a bonus.
C7_Witness ==
    /\ Returned
    /\ ~BlankInput
    /\ result[1].score < 100
    /\ \E i \in 1..Len(TheSuggestions) : TheSuggestions[i].type = "info"
    /\ HasSuccess
    /\ ExpectedBonus > 0

ExpectedSummary ==
    IF HasSuccess
    THEN "Your AGENTS.md is well-structured and ready to help agents work effectively!"
    ELSE IF result[1].score >= 80
    THEN "Your AGENTS.md looks good with just a few suggestions for improvement."
    ELSE IF result[1].score >= 60
    THEN "Your AGENTS.md has good basics but could be improved in a few areas."
    ELSE IF result[1].score >= 40
    THEN "Your AGENTS.md needs some work. Focus on the high-priority suggestions first."
    ELSE IF \E i \in 1..Len(TheSuggestions) :
                TheSuggestions[i].priority = "high" /\ TheSuggestions[i].type # "success"
    THEN "Start by addressing the high-priority suggestions to improve your AGENTS.md."
    ELSE "Add more content and structure to help agents understand your project."

\* C8: for a non-blank input the summary is that of the first matching case:
\* a success suggestion, score >= 80, score >= 60, score >= 40, a high-priority
\* suggestion that is no success, none of these.
C8_SummaryOrder ==
    (Returned /\ ~BlankInput) => result[1].summary = ExpectedSummary

\* C8 witness: a success suggestion and a high-priority issue in one result.
C8_Witness ==
    /\ Returned
    /\ HasSuccess
    /\ Has("Consider adding setup instructions")

\* the place of a suggestion in the order the rules emit them
EmissionPlace(title) ==
    CASE title \in {"Consider keeping it concise", "File is getting long"} -> 1
      [] title \in {"Add more context", "Add section headings"} -> 2
      [] title = "Consider adding setup instructions" -> 3
      [] title = "Consider adding testing instructions" -> 4
      [] title = "Consider documenting code style" -> 5
      [] title = "Consider using code blocks" -> 6
      [] title = "Be more specific about versions" -> 7
      [] title = "Multiple top-level headings" -> 8
      [] title = "Some sections are very long" -> 9
      [] title = "Empty sections detected" -> 10
      [] title = "Well-structured AGENTS.md" -> 11

\* C9: two suggestions of equal priority are returned in the order the rules
\* emitted them.
C9_StableSort ==
    (Returned /\ ~BlankInput) =>
        \A i, j \in 1..Len(TheSuggestions) :
            (i < j /\ TheSuggestions[i].priority = TheSuggestions[j].priority)
                => EmissionPlace(TheSuggestions[i].title) < EmissionPlace(TheSuggestions[j].title)

\* C9 witness: a list of two high-priority suggestions, one of them the
\* success suggestion, two low-priority ones, and a medium one emitted after
\* both low ones.
C9_Witness ==
    /\ Returned
    /\ Len(TheSuggestions) = 5
    /\ Has("Consider adding setup instructions")
    /\ Has("Multiple top-level headings")
    /\ Has("Some sections are very long")
    /\ Has("Empty sections detected")
    /\ Has("Well-structured AGENTS.md")

\* the four conditions of the well-formed rule, on the parse and the input
ExpectSuccess ==
    /\ parsed[1].lineCount >= 10
    /\ parsed[1].lineCount <= 150
    /\ Len(parsed[1].sections) >= 3
    /\ Len(extractCommands(content)) > 0 \/ Len(parsed[1].codeBlocks) > 0
    /\ LET k == detectSectionKeywords(AllText(parsed[1].sections))
       IN  \/ k.hasSetup /\ k.hasTesting
           \/ k.hasSetup /\ k.hasCodeStyle
           \/ k.hasTesting /\ k.hasCodeStyle

\* C10: for a non-blank input the success suggestion (type success, priority
\* high) is returned exactly when the four conditions hold.
C10_SuccessIff ==
    (Returned /\ ~BlankInput) =>
        /\ ExpectSuccess <=> Has("Well-structured AGENTS.md")
        /\ \A i \in 1..Len(TheSuggestions) :
              TheSuggestions[i].title = "Well-structured AGENTS.md"
                  <=> (TheSuggestions[i].type = "success" /\ TheSuggestions[i].priority = "high")

\* C10 witness: the success suggestion is returned for an input of exactly
\* 150 lines.
C10_Witness ==
    /\ Returned
    /\ Has("Well-structured AGENTS.md")
    /\ parsed[1].lineCount = 150

HasHigh(title) ==
    \E i \in 1..Len(TheSuggestions) :
        TheSuggestions[i].title = title /\ TheSuggestions[i].priority = "high"

\* C11 as claimed: for every non-blank input whose parse has no section, the
\* no-headings suggestion (priority high) is returned, whatever lineCount is.
C11_Claimed ==
    (Returned /\ ~BlankInput /\ Len(parsed[1].sections) = 0)
        => HasHigh("Add section headings")

\* C11 as amended: for every non-blank input whose parse has no section, the
\* no-headings suggestion (priority high) is returned when lineCount >= 5; when
\* lineCount < 5 the minimum-content suggestion is returned and the
\* no-headings suggestion is not.
C11_NoHeadings ==
    (Returned /\ ~BlankInput /\ Len(parsed[1].sections) = 0) =>
        IF parsed[1].lineCount >= 5
        THEN HasHigh("Add section headings") /\ ~Has("Add more context")
        ELSE Has("Add more context") /\ ~Has("Add section headings")

\* C11 witness: an input of exactly 5 lines without a heading got the
\* no-headings suggestion together with suggestions of other rules.
C11_Witness ==
    /\ Returned
    /\ ~BlankInput
    /\ Len(parsed[1].sections) = 0
    /\ parsed[1].lineCount = 5
    /\ HasHigh("Add section headings")
    /\ Len(TheSuggestions) > 3

\* C12 as claimed: for the example document the success suggestion is
\* returned, the summary is the fixed positive sentence and the score is 100,
\* the cap.
C12_Claimed ==
    (Returned /\ content = EXAMPLE_CONTENT) =>
        /\ HasHigh("Well-structured AGENTS.md")
        /\ result[1].summary
             = "Your AGENTS.md is well-structured and ready to help agents work effectively!"
        /\ result[1].score = 100

\* C12 as amended: for the example document the success suggestion is
\* returned, the summary is the fixed positive sentence and the score is 99:
\* the empty-section (medium) and inline-commands (low) suggestions cost 11
\* points and two bonuses add 10, so the cap of 100 is not reached.
C12_ExampleDocument ==
    (Returned /\ content = EXAMPLE_CONTENT) =>
        /\ HasHigh("Well-structured AGENTS.md")
        /\ Has("Empty sections detected")
        /\ Has("Consider using code blocks")
        /\ Len(TheSuggestions) = 3
        /\ result[1].summary
             = "Your AGENTS.md is well-structured and ready to help agents work effectively!"
        /\ result[1].score = 99

\* C12 witness: the call on the example document has returned, with the
\* success suggestion.
C12_Witness ==
    /\ Returned
    /\ content = EXAMPLE_CONTENT
    /\ parsed[1].lineCount = 29
    /\ HasSuccess

\* a 210-line input with at least 3 sections whose text has a word of each of
\* the setup, testing and code-style vocabularies
LongFileCase ==
    /\ Returned
    /\ ~BlankInput
    /\ parsed[1].lineCount = 210
    /\ Len(parsed[1].sections) >= 3
    /\ LET k == detectSectionKeywords(AllText(parsed[1].sections))
       IN  k.hasSetup /\ k.hasTesting /\ k.hasCodeStyle

HasTooLong ==
    \E i \in 1..Len(TheSuggestions) :
        /\ TheSuggestions[i].title = "Consider keeping it concise"
        /\ TheSuggestions[i].priority = "medium"

\* C13 as claimed: such an input gets the too-long suggestion (medium), no
\* success suggestion, and a score of 100 - 8 plus the bonuses.
C13_Claimed ==
    LongFileCase =>
        /\ HasTooLong
        /\ ~HasSuccess
        /\ result[1].score = (IF 92 + ExpectedBonus < 100 THEN 92 + ExpectedBonus ELSE 100)

\* C13 as amended: such an input gets the too-long suggestion (medium) and
\* no success suggestion; its score is 100 less 8 and less the deduction of
\* every other suggestion returned, plus the bonuses, so it is 92 plus the
\* bonuses only when no other suggestion is returned.
C13_LongFile ==
    LongFileCase =>
        /\ HasTooLong
        /\ ~Has("File is getting long")
        /\ ~HasSuccess
        /\ ExpectedDeductions(TheSuggestions) >= 8
        /\ result[1].score = ExpectedScore
        /\ Len(TheSuggestions) = 1 => result[1].score = 92 + ExpectedBonus

\* C13 witness: such an input with the too-long suggestion alone, scored 97.
C13_Witness ==
    /\ LongFileCase
    /\ HasTooLong
    /\ Len(TheSuggestions) = 1
    /\ result[1].score = 97

\* C14: for the input '# T', '', '## Setup', '- x: `pnpm install`' and a
\* trailing newline, the parse has one heading of level 1 and one section
\* titled 'Setup', and neither the missing-setup nor the no-headings
\* suggestion is returned.
C14_MinimalDoc ==
    (Returned /\ content = MinimalDoc) =>
        /\ Cardinality({i \in 1..Len(parsed[1].headings) :
                           parsed[1].headings[i].level = 1}) = 1
        /\ Cardinality({i \in 1..Len(parsed[1].sections) :
                           parsed[1].sections[i].title = <<"S", "e", "t", "u", "p">>}) = 1
        /\ ~Has("Consider adding setup instructions")
        /\ ~Has("Add section headings")

\* C14 witness: the call on that input has returned, its parse having the
\* five lines and the two headings of the input.
C14_Witness ==
    /\ Returned
    /\ content = MinimalDoc
    /\ parsed[1].lineCount = 5
    /\ Len(parsed[1].headings) = 2
    /\ Len(TheSuggestions) > 0

Parsed == pc = "done" /\ Len(parsed) = 1

NewlineCount == Cardinality({i \in 1..Len(content) : content[i] = "\n"})

\* C15: parseMarkdown(text).lineCount is the number of newline characters of
\* text plus one, and characterCount is the length of text.
C15_Counts ==
    Parsed =>
        /\ parsed[1].lineCount = NewlineCount + 1
        /\ parsed[1].characterCount = Len(content)

\* C15 witness: a text that ends with a newline and has a line inside a
\* fence and a line before the first heading.
C15_Witness ==
    /\ Parsed
    /\ Len(content) > 0
    /\ content[Len(content)] = "\n"
    /\ parsed[1].lineCount = 4
    /\ Len(parsed[1].codeBlocks) = 1
    /\ Len(parsed[1].headings) = 0

\* the forEach callback runs on the line numbered index + 1
LineStep == pc = "scan" /\ index' = index + 1

\* C16: a line scanned inside a fence adds no heading, opens no section and
\* adds nothing to a section's content; unless it is a fence line it is added
\* to the code block in progress, as it is and followed by a newline, and
\* changes nothing else.
C16_FenceIsolation ==
    [][ (LineStep /\ scan.inCodeBlock) =>
            /\ scan'.headings = scan.headings
            /\ scan'.sections = scan.sections
            /\ scan'.currentSection = scan.currentSection
            /\ ~IsFenceLine(lines[index']) =>
                   /\ scan'.inCodeBlock
                   /\ scan'.codeBlocks = scan.codeBlocks
                   /\ Len(scan.currentCodeBlock) = 1
                   /\ scan'.currentCodeBlock =
                          <<[scan.currentCodeBlock[1] EXCEPT
                                !.code = @ \o lines[index'] \o <<"\n">>]>> ]_vars

\* C16 witness: the line '# T' was scanned inside a fence that follows a
\* section's heading: it is in the code block and is no second heading.
C16_Witness ==
    /\ pc = "scan"
    /\ index = 3
    /\ lines[3] = <<"#", " ", "T">>
    /\ scan.inCodeBlock
    /\ Len(scan.headings) = 1
    /\ scan.currentSection # <<>>
    /\ scan.currentSection[1].content = <<>>
    /\ scan.currentCodeBlock[1].code = <<"#", " ", "T", "\n">>

\* the line numbered n is outside a fence: an even number of fence lines
\* comes before it, and it is no fence line itself
OutsideFence(n) ==
    /\ ~IsFenceLine(lines[n])
    /\ Cardinality({j \in 1..(n - 1) : IsFenceLine(lines[j])}) % 2 = 0

\* the line is a run of '#' followed by whitespace only, or by nothing
OnlyHashesAndSpace(line) ==
    /\ LeadingHashes(line) >= 1
    /\ \A j \in (LeadingHashes(line) + 1)..Len(line) : line[j] \in {" ", "\t", "\n", "\r"}

\* C17: every heading returned comes from a line outside a fence made of 1 to
\* 6 '#', one or more spaces and a non-empty text; its level is the number of
\* '#', its text the trimmed remainder and never the empty string; a line of
\* '#' followed by whitespace only gives no heading.
C17_Claimed ==
    Parsed =>
        /\ \A i \in 1..Len(parsed[1].headings) :
              LET h    == parsed[1].headings[i]
                  line == lines[h.lineNumber]
                  k    == LeadingHashes(line)
              IN  /\ OutsideFence(h.lineNumber)
                  /\ k \in 1..6
                  /\ h.level = k
                  /\ Len(line) > k
                  /\ line[k + 1] \in {" ", "\t"}
                  /\ h.text = trim(SubSeq(line, k + 1, Len(line)))
                  /\ h.text # <<>>
        /\ \A n \in 1..Len(lines) :
              OnlyHashesAndSpace(lines[n]) =>
                  \A i \in 1..Len(parsed[1].headings) : parsed[1].headings[i].lineNumber # n

\* xs is ys or ys with elements added at its end
Extends(xs, ys) == Len(ys) <= Len(xs) /\ SubSeq(xs, 1, Len(ys)) = ys

\* C18: a line that is neither a fence line nor a heading, scanned outside a
\* fence, is added with a newline to the content of the section opened last
\* and changes nothing else, and changes nothing at all when no section is
\* open; the sections and code blocks already pushed are never changed by a
\* later line, nor when the result is returned.
C18_Frame ==
    [][ /\ LineStep =>
             /\ Extends(scan'.sections, scan.sections)
             /\ Extends(scan'.codeBlocks, scan.codeBlocks)
             /\ Extends(scan'.headings, scan.headings)
        /\ (LineStep /\ ~scan.inCodeBlock /\ ~IsFenceLine(lines[index'])
                     /\ HeadingMatch(lines[index']) = <<>>) =>
             IF scan.currentSection = <<>> THEN scan' = scan
             ELSE scan' = [scan EXCEPT !.currentSection =
                              <<[scan.currentSection[1] EXCEPT
                                    !.content = @ \o lines[index'] \o <<"\n">>]>>]
        /\ (pc = "scan" /\ pc' = "done") =>
             /\ Extends(parsed'[1].sections, scan.sections)
             /\ parsed'[1].codeBlocks = scan.codeBlocks ]_vars

\* C18 witness: the line 'x' was added to the second section, after the
\* first was pushed, and a line before the first heading was dropped.
C18_Witness ==
    /\ pc = "scan"
    /\ index = 4
    /\ lines[1] = <<"x">>
    /\ Len(scan.sections) = 1
    /\ scan.sections[1].content = <<>>
    /\ scan.currentSection # <<>>
    /\ scan.currentSection[1].content = <<"x", "\n">>

\* the number of the last fence line, 0 when there is none
LastFence ==
    IF \E n \in 1..Len(lines) : IsFenceLine(lines[n])
    THEN CHOOSE n \in 1..Len(lines) :
             IsFenceLine(lines[n]) /\ \A j \in (n + 1)..Len(lines) : ~IsFenceLine(lines[j])
    ELSE 0

\* the text ends while a fence is open: its number of fence lines is odd
Unterminated == FenceLineCount % 2 = 1

\* the parse of the text cut before its last fence line
ParseBeforeLastFence == parseMarkdown(Join(SubSeq(lines, 1, LastFence - 1), <<"\n">>))

\* C19: when the text ends while a fence is open, parseMarkdown returns; the
\* block of that fence is not among codeBlocks; the headings and the sections,
\* the one open before the fence included, are those of the text cut before
\* that fence, so the lines after it give no heading and no section content.
C19_UnterminatedFence ==
    (Parsed /\ Unterminated) =>
        /\ \A i \in 1..Len(parsed[1].codeBlocks) :
              parsed[1].codeBlocks[i].lineNumber < LastFence
        /\ Len(parsed[1].codeBlocks) = (FenceLineCount - 1) \div 2
        /\ \A i \in 1..Len(parsed[1].headings) :
              parsed[1].headings[i].lineNumber < LastFence
        /\ parsed[1].headings = ParseBeforeLastFence.headings
        /\ parsed[1].sections = ParseBeforeLastFence.sections

\* C19 witness: a fence opened on line 3 is never closed; the section of
\* line 1 is returned with its content, and line 4, '## S', is no heading.
C19_Witness ==
    /\ Parsed
    /\ Unterminated
    /\ LastFence = 3
    /\ Len(lines) = 4
    /\ lines[4] = <<"#", "#", " ", "S">>
    /\ Len(parsed[1].sections) = 1
    /\ parsed[1].sections[1].content = <<"x", "\n">>
    /\ parsed[1].codeBlocks = <<>>

\* the number of the k-th fence line of the text
FenceAt(k) ==
    CHOOSE n \in 1..Len(lines) :
        /\ IsFenceLine(lines[n])
        /\ Cardinality({j \in 1..n : IsFenceLine(lines[j])}) = k

\* the lines strictly between the lines numbered a and b, a newline after each
LinesBetween(a, b) ==
    IF a + 1 > b - 1 THEN <<>>
    ELSE Join(SubSeq(lines, a + 1, b - 1), <<"\n">>) \o <<"\n">>

\* the trimmed text after the three backticks of a fence line, 'text' when
\* there is none
LabelOf(line) ==
    LET t    == trim(line)
        rest == trim(SubSeq(t, 4, Len(t)))
    IN  IF rest = <<>> THEN <<"t", "e", "x", "t">> ELSE rest

\* C20: the i-th code block returned starts at fence line 2i - 1 and ends at
\* fence line 2i, whatever follows the backticks there: its lineNumber is the
\* number of the opening line, its language the trimmed text after the
\* opening backticks or 'text', its code the lines strictly between the two,
\* each followed by a newline.
C20_CodeBlocks ==
    Parsed =>
        \A i \in 1..Len(parsed[1].codeBlocks) :
            /\ 2 * i <= FenceLineCount
            /\ parsed[1].codeBlocks[i].lineNumber = FenceAt(2 * i - 1)
            /\ parsed[1].codeBlocks[i].language = LabelOf(lines[FenceAt(2 * i - 1)])
            /\ parsed[1].codeBlocks[i].code = LinesBetween(FenceAt(2 * i - 1), FenceAt(2 * i))

\* C20 witness: a block opened by ' ```js' on line 1 and closed by the same
\* line, holding the two lines between them.
C20_Witness ==
    /\ Parsed
    /\ Len(parsed[1].codeBlocks) = 1
    /\ parsed[1].codeBlocks[1] =
          [language |-> <<"j", "s">>, lineNumber |-> 1,
           code |-> <<"#", " ", "T", "\n", "x", "\n">>]
    /\ lines[4] = <<" ", BT, BT, BT, "j", "s">>

\* a suggestion with this title and this priority is returned
HasWith(title, priority) ==
    \E i \in 1..Len(TheSuggestions) :
        TheSuggestions[i].title = title /\ TheSuggestions[i].priority = priority

\* C21: for a non-blank input the too-long suggestion (medium) is returned
\* iff lineCount > 200, the getting-long one (low) iff 150 < lineCount <= 200 and
\* the minimum-content one (medium) iff lineCount < 5, each with no other
\* priority; so at most one of the three is returned.
C21_LengthRules ==
    (Returned /\ ~BlankInput) =>
        /\ Has("Consider keeping it concise") <=> parsed[1].lineCount > 200
        /\ Has("File is getting long")
              <=> (parsed[1].lineCount > 150 /\ parsed[1].lineCount <= 200)
        /\ Has("Add more context") <=> parsed[1].lineCount < 5
        /\ Has("Consider keeping it concise")
              => HasWith("Consider keeping it concise", "medium")
        /\ Has("File is getting long") => HasWith("File is getting long", "low")
        /\ Has("Add more context") => HasWith("Add more context", "medium")
        /\ Cardinality({t \in {"Consider keeping it concise", "File is getting long",
                                "Add more context"} : Has(t)}) <= 1
        /\ \A i, j \in 1..Len(TheSuggestions) :
              (TheSuggestions[i].title = TheSuggestions[j].title
               /\ TheSuggestions[i].title \in {"Consider keeping it concise",
                                               "File is getting long", "Add more context"})
                  => i = j

\* C21 witness: an input of exactly 200 lines got the getting-long suggestion.
C21_Witness ==
    /\ Returned
    /\ ~BlankInput
    /\ parsed[1].lineCount = 200
    /\ HasWith("File is getting long", "low")

\* the concatenation of the section titles and contents, in lower case
SectionText == toLowerCase(AllText(parsed[1].sections))

\* one of the words occurs in SectionText as a word: it starts where a word
\* starts and ends where a word ends
TopicOccurs(words) ==
    LET t      == SectionText
        starts == {p \in 1..Len(t) :
                     /\ t[p] \in WordChars
                     /\ (p = 1 \/ t[p - 1] \notin WordChars)}
    IN  \E p \in starts : \E w \in words :
            /\ p + Len(w) - 1 <= Len(t)
            /\ SubSeq(t, p, p + Len(w) - 1) = w
            /\ (p + Len(w) > Len(t) \/ t[p + Len(w)] \notin WordChars)

AllTopicsMissing ==
    /\ HasWith("Consider adding setup instructions", "high")
    /\ HasWith("Consider adding testing instructions", "medium")
    /\ HasWith("Consider documenting code style", "low")

\* C22: for a non-blank input each missing-topic suggestion (setup high,
\* testing medium, code style low) is returned iff no word of the topic occurs
\* in the section titles and contents; all three are returned when there is no
\* section, and when the words are only before the first heading or only
\* inside a fence.
C22_MissingTopics ==
    (Returned /\ ~BlankInput) =>
        /\ Has("Consider adding setup instructions") <=> ~TopicOccurs(SetupWords)
        /\ Has("Consider adding testing instructions") <=> ~TopicOccurs(TestingWords)
        /\ Has("Consider documenting code style") <=> ~TopicOccurs(CodeStyleWords)
        /\ Has("Consider adding setup instructions")
              => HasWith("Consider adding setup instructions", "high")
        /\ Has("Consider adding testing instructions")
              => HasWith("Consider adding testing instructions", "medium")
        /\ Has("Consider documenting code style")
              => HasWith("Consider documenting code style", "low")
        /\ Len(parsed[1].sections) = 0 => AllTopicsMissing
        /\ content \in {TopicsBeforeHeading, TopicsInFence, TopicsNoSection}
              => AllTopicsMissing
        /\ content = TopicsInSection
              => (~Has("Consider adding setup instructions")
                  /\ ~Has("Consider adding testing instructions")
                  /\ ~Has("Consider documenting code style"))

\* C22 witness: the words of the three topics are inside a fence of the only
\* section, and the three suggestions are returned.
C22_Witness ==
    /\ Returned
    /\ content = TopicsInFence
    /\ Len(parsed[1].sections) = 1
    /\ Len(parsed[1].codeBlocks) = 1
    /\ AllTopicsMissing

\* the number of lines accumulated in a section's content: each was added
\* with one newline after it
ContentLines(sec) == Cardinality({k \in 1..Len(sec.content) : sec.content[k] = "\n"})

\* C23: for a non-blank input the long-section suggestion (low) is returned
\* iff some section has more than 50 content lines; a section of exactly 50
\* content lines does not trigger it.
C23_Claimed ==
    (Returned /\ ~BlankInput) =>
        /\ Has("Some sections are very long")
              <=> \E i \in 1..Len(parsed[1].sections) : ContentLines(parsed[1].sections[i]) > 50
        /\ Has("Some sections are very long") => HasWith("Some sections are very long", "low")

\* the length of a text without its leading and trailing whitespace
TrimmedLength(t) ==
    LET solid == {k \in 1..Len(t) : t[k] \notin {" ", "\t", "\n", "\r"}}
    IN  IF solid = {} THEN 0
        ELSE (CHOOSE k \in solid : \A j \in solid : j <= k)
             - (CHOOSE k \in solid : \A j \in solid : j >= k) + 1

\* C24: for a non-blank input the empty-section suggestion (medium) is
\* returned iff the trimmed content of some section has fewer than 10
\* characters, as has a heading directly followed by a heading and a section
\* whose body is a fenced code block only.
C24_EmptySections ==
    (Returned /\ ~BlankInput) =>
        /\ Has("Empty sections detected")
              <=> \E i \in 1..Len(parsed[1].sections) :
                      TrimmedLength(parsed[1].sections[i].content) < 10
        /\ Has("Empty sections detected") => HasWith("Empty sections detected", "medium")
        /\ content = TenCharacters => ~Has("Empty sections detected")
        /\ content = NineCharacters => Has("Empty sections detected")
        /\ content \in {Doc(<<FragTitle, FragSetup>>, 0), Doc(<<FragTitle, FragCode>>, 0)}
              => Has("Empty sections detected")

\* C24 witness: the only section has a fenced code block as its body, and
\* the suggestion is returned.
C24_Witness ==
    /\ Returned
    /\ content = Doc(<<FragTitle, FragCode>>, 0)
    /\ Len(parsed[1].sections) = 1
    /\ parsed[1].sections[1].content = <<>>
    /\ Len(parsed[1].codeBlocks) = 1
    /\ HasWith("Empty sections detected", "medium")

\* the names a tool is mentioned by
PlainToolNames ==
    { <<"R","e","a","c","t">>,
      <<"P","y","t","h","o","n">>,
      <<"T","y","p","e","S","c","r","i","p","t">>,
      <<"N","e","x","t">>,
      <<"N","e","x","t",".","j","s">> }

NodeNames ==
    { <<"N","o","d","e">>,
      <<"N","o","d","e",".","j","s">> }

\* name stands in the input at position a as a word of its own
MentionedAt(name, a) ==
    /\ a + Len(name) - 1 <= Len(content)
    /\ \A k \in 1..Len(name) : content[a + k - 1] = name[k]
    /\ (a = 1 \/ content[a - 1] \notin WordChars)
    /\ (a + Len(name) > Len(content) \/ content[a + Len(name)] \notin WordChars)

\* from position e of the input on: whitespace, then a digit (orV: or the
\* letter v and a digit)
NumberAfter(e, orV) ==
    \E d \in (e + 1)..Len(content) :
        /\ \A k \in e..(d - 1) : content[k] \in {" ", "\t", "\n", "\r"}
        /\ \/ content[d] \in Digits
           \/ orV /\ content[d] = "v" /\ d + 1 <= Len(content) /\ content[d + 1] \in Digits

\* some mention of a tool is not directly followed by whitespace and a digit
UnversionedMention ==
    \E name \in PlainToolNames \cup NodeNames : \E a \in 1..Len(content) :
        MentionedAt(name, a) /\ ~NumberAfter(a + Len(name), FALSE)

\* the same, where a mention of Node or Node.js followed by whitespace, the
\* letter v and a digit has its version too
UnversionedMentionOrV ==
    \/ \E name \in PlainToolNames : \E a \in 1..Len(content) :
           MentionedAt(name, a) /\ ~NumberAfter(a + Len(name), FALSE)
    \/ \E name \in NodeNames : \E a \in 1..Len(content) :
           MentionedAt(name, a) /\ ~NumberAfter(a + Len(name), TRUE)

\* the input holds a token of a word and a number
WordNumberToken ==
    VersionTest(content, 0, FALSE) > 0 \/ VersionTest(content, 0, TRUE) > 0

\* C25 as claimed: for a non-blank input the tool-without-version suggestion
\* is returned iff some mention of React, Node, Node.js, Python, TypeScript,
\* Next or Next.js is not directly followed by whitespace and a digit and the
\* input holds no token of a word and a number.
C25_Claimed ==
    (Returned /\ ~BlankInput) =>
        (Has("Be more specific about versions") <=> (UnversionedMention /\ ~WordNumberToken))

\* C25: for a non-blank input the tool-without-version suggestion (low) is
\* returned iff some mention of React, Node, Node.js, Python, TypeScript,
\* Next or Next.js is not directly followed by whitespace and a digit (for
\* Node and Node.js: whitespace, an optional v and a digit) and the input
\* holds no token of a word and a number; one such token anywhere suppresses
\* the suggestion even when no tool mention has a version.
C25_ToolWithoutVersion ==
    (Returned /\ ~BlankInput) =>
        /\ Has("Be more specific about versions")
              <=> (UnversionedMentionOrV /\ ~WordNumberToken)
        /\ Has("Be more specific about versions")
              => HasWith("Be more specific about versions", "low")
        /\ WordNumberToken => ~Has("Be more specific about versions")

\* C25 witness: React is mentioned without a version, "step 2" stands on the
\* next line, and the suggestion is not returned.
C25_Witness ==
    /\ Returned
    /\ content = <<"R","e","a","c","t"," ","i","s"," ","u","s","e","d">>
                  \o <<"\n">> \o <<"s","t","e","p"," ","2">>
    /\ UnversionedMentionOrV
    /\ WordNumberToken
    /\ ~Has("Be more specific about versions")

\* C26: for every non-blank input the deductions add up to 55 at most and
\* the score is at least 45: the no-headings suggestion excludes the three
\* suggestions about headings and sections, and the minimum-content
\* suggestion excludes the two about length and the long-section one. So
\* 100 - D is not negative, a score of 0 is returned for blank input only,
\* and the summaries for scores below 40 are never returned.
C26_DeductionBound ==
    Returned =>
        /\ ~BlankInput =>
              /\ ExpectedDeductions(TheSuggestions) <= 55
              /\ result[1].score >= 45
              /\ result[1].score
                    = Min(100, 100 - ExpectedDeductions(TheSuggestions) + ExpectedBonus)
              /\ Has("Add section headings")
                    => (~Has("Multiple top-level headings")
                        /\ ~Has("Some sections are very long")
                        /\ ~Has("Empty sections detected")
                        /\ ~Has("Add more context"))
              /\ Has("Add more context")
                    => (~Has("Consider keeping it concise")
                        /\ ~Has("File is getting long")
                        /\ ~Has("Some sections are very long"))
              /\ result[1].summary \notin {SummaryHighPriority, SummaryAddContent}
        /\ result[1].score = 0 => BlankInput

\* C26 witness: an input without headings and of more than 200 lines, with
\* six inline commands and a tool without a version, costs 55 points and
\* scores 45.
C26_Witness ==
    /\ Returned
    /\ ~BlankInput
    /\ Len(parsed[1].sections) = 0
    /\ parsed[1].lineCount > 200
    /\ ExpectedDeductions(TheSuggestions) = 55
    /\ result[1].score = 45

\* the suggestions returned about a missing topic
MissingTopics ==
    {i \in 1..Len(TheSuggestions) :
        TheSuggestions[i].title \in {"Consider adding setup instructions",
                                     "Consider adding testing instructions",
                                     "Consider documenting code style"}}

\* C27: a result with the success suggestion has none of the two length
\* suggestions, neither the minimum-content nor the no-headings suggestion,
\* at most one missing-topic suggestion, and a score of 75 at least.
C27_SuccessImplies ==
    (Returned /\ ~BlankInput /\ Has("Well-structured AGENTS.md")) =>
        /\ ~Has("Consider keeping it concise")
        /\ ~Has("File is getting long")
        /\ ~Has("Add more context")
        /\ ~Has("Add section headings")
        /\ Cardinality(MissingTopics) <= 1
        /\ result[1].score >= 75

\* C27 witness: the success suggestion is returned with the missing-setup
\* suggestion and five more, which cost 35 points, and the score is 75.
C27_Witness ==
    /\ Returned
    /\ content = WellFormedAtWorst
    /\ Has("Well-structured AGENTS.md")
    /\ Has("Consider adding setup instructions")
    /\ Cardinality(MissingTopics) = 1
    /\ Len(TheSuggestions) = 7
    /\ result[1].score = 75

\* C28: in every result no two suggestions have the same title, and there
\* are 10 suggestions at most.
C28_NoDuplicates ==
    Returned =>
        /\ \A i, j \in 1..Len(TheSuggestions) :
               TheSuggestions[i].title = TheSuggestions[j].title => i = j
        /\ Len(TheSuggestions) <= 10

\* C28 witness: nine suggestions of nine kinds are returned, two of them
\* about several headings or sections at once.
C28_Witness ==
    /\ Returned
    /\ content = EverythingWrong
    /\ Len(TheSuggestions) = 9
    /\ Has("Multiple top-level headings")
    /\ Has("Empty sections detected")

\* C29: on the validator page at most one timeout is pending; a change of
\* the content leaves exactly the timeout armed for the new content; the
\* debounced content is only ever set to the content of that moment; and
\* whenever the content is c, then the content changes, or the page is
\* left, or the debounced content becomes c.
C29_Debounce ==
    /\ [](Cardinality(timers) <= 1)
    /\ [][pageContent' # pageContent => timers' = {pageContent'}]_vars
    /\ [][debouncedContent' # debouncedContent
            => (debouncedContent' = pageContent /\ pageContent' = pageContent)]_vars
    /\ \A c \in PageTexts :
           (mounted /\ pageContent = c)
               ~> (debouncedContent = c \/ pageContent # c \/ ~mounted)

\* C29 witness: the example was loaded and its timeout has fired, so that
\* the example is validated; then the content was changed again: one
\* timeout is pending, for the new content.
C29_Witness ==
    /\ mounted
    /\ debouncedContent = EXAMPLE_CONTENT
    /\ validationResult.score = 99
    /\ pageContent # EXAMPLE_CONTENT
    /\ timers = {pageContent}

\* C30: the wizard's step is always one of 1..4; at step 1 nothing lowers
\* it and the Back update keeps 1, at step 4 nothing raises it and the Next
\* update keeps 4; opening or closing the preview changes neither the step
\* nor the answers.
C30_WizardStep ==
    /\ [](step \in 1..4)
    /\ [](step = 1 => BackUpdate(step) = 1)
    /\ [](step = 4 => NextUpdate(step) = 4)
    /\ [][(step = 1 => step' >= step) /\ (step = 4 => step' <= step)]_vars
    /\ [][showPreview' # showPreview => (step' = step /\ data' = data)]_vars

\* C30 witness: answers were entered, and Generate at step 4 has opened the
\* preview.
C30_Witness ==
    /\ step = 4
    /\ showPreview
    /\ data.projectName = "x"
    /\ data.packageManager = "pip"
    /\ data.installCommand = "pip install -r requirements.txt"
    /\ data.codeStyle = <<"tabs", "single-quotes">>
    /\ data.additionalNotes = "x"

====
